---- MODULE Spec2Model ----
(***************************************************************************)
(* A model of the interactsh HTTP server (pkg/server): the control plane   *)
(* (/register, /deregister, /poll), the dynamic endpoint registry          *)
(* (/storerequest, /apidocs/), the correlation scan of the request logger, *)
(* URL reflection and the dynamic response engine.                         *)
(*                                                                         *)
(* The storage backend (pkg/storage) and isCorrelationID are not part of   *)
(* the covered sources; they are modelled after the storage contract and   *)
(* the matcher description of the specification (sections 4.1 and 4.2).    *)
(***************************************************************************)
EXTENDS Integers, Sequences, FiniteSets, TLC

(***************************************************************************)
(* Bounds of the model.                                                    *)
(***************************************************************************)
MaxBlobs == 3        \* interactions appended in one behaviour
RingSize == 2        \* capacity of the per-entry ringbuffer (5000 by default)
MaxSessions == 2     \* the session counter is kept in -MaxSessions+1 .. MaxSessions

\* a string as the sequence of its characters, each a one-character string
Str(s) == [i \in 1..Len(s) |-> SubSeq(s, i, i)]

(***************************************************************************)
(* Inputs of the control plane.                                            *)
(***************************************************************************)
Ids == {<<"a">>, <<"b">>}         \* correlation ids
Secrets == {"s1", "s2"}
PubKeys == {"pk1"}
BadKey == "notakey"               \* a public key that does not parse
Domains == <<Str("b.b")>>         \* options.Domains
Procs == {"h1", "h2"}             \* concurrently running request handlers
DomainSet == {Domains[i] : i \in 1..Len(Domains)}

VARIABLES
    RootTLD,      \* options.RootTLD
    Token,        \* options.Token
    registry,     \* storage: correlation id -> client record
    channel,      \* storage: literal key -> unencrypted queue
    Sessions,     \* options.Stats.Sessions
    nextBlob,     \* number of the next interaction blob
    poll,         \* per handler: the locals of a pollHandler in progress
    appended,     \* per id: add_interaction calls since registration / last drain
    delivered,    \* per blob: number of times it was part of a poll response
    dynamicEndpoints, \* HTTPServer.dynamicEndpoints: suburl -> dynamicEndpoint
    dynMu,        \* HTTPServer.dynMu: the readers and the writer holding it
    clock,        \* the time time.Now() returns, in hours
    store,        \* per handler: the locals of a storeHandler in progress
    accepted,     \* per suburl: what the last /storerequest answered 200 published
    options,      \* options: ScanEverywhere, DynamicResp, HTTPDirectory, Auth, EnableMetrics
    httpReq,      \* the data-plane request being served: Host, URL.Path, URL.RawQuery
    phase,        \* "new": the request has arrived; "done": it has been handled
    httpResp,     \* what the client receives
    calls         \* the Storage calls the request has caused, in order

ctlVars == <<RootTLD, Token, registry, channel, Sessions, nextBlob, poll,
             appended, delivered>>

dynVars == <<dynamicEndpoints, dynMu, clock, store, accepted>>

httpVars == <<options, httpReq, phase, httpResp, calls>>

vars == <<ctlVars, dynVars, httpVars>>
notCtl == <<dynVars, httpVars>>
notDyn == <<ctlVars, httpVars>>

(***************************************************************************)
(* Strings.  A string is a sequence of one-character strings; the          *)
(* operators below are those of Go's strings package and of the stringsutil *)
(* helpers the server calls.                                               *)
(***************************************************************************)
Lowers == Str("abcdefghijklmnopqrstuvwxyz")
Uppers == Str("ABCDEFGHIJKLMNOPQRSTUVWXYZ")
Digits == Str("0123456789")
Range(s) == {s[i] : i \in 1..Len(s)}
IndexIn(tbl, c) == CHOOSE i \in 1..Len(tbl) : tbl[i] = c

LowerOf == [c \in Range(Uppers) |-> Lowers[IndexIn(Uppers, c)]]
UpperOf == [c \in Range(Lowers) |-> Uppers[IndexIn(Lowers, c)]]
LowerAlnum == Range(Lowers) \cup Range(Digits)
lower(c) == IF c \in DOMAIN LowerOf THEN LowerOf[c] ELSE c
upper(c) == IF c \in DOMAIN UpperOf THEN UpperOf[c] ELSE c
ToLower(s) == [i \in 1..Len(s) |-> lower(s[i])]
EqualFold(s, t) == ToLower(s) = ToLower(t)
HasPrefix(s, p) == Len(p) <= Len(s) /\ SubSeq(s, 1, Len(p)) = p
HasSuffix(s, p) == Len(p) <= Len(s) /\ SubSeq(s, Len(s) - Len(p) + 1, Len(s)) = p
HasPrefixI(s, p) == HasPrefix(ToLower(s), ToLower(p))
HasSuffixI(s, p) == HasSuffix(ToLower(s), ToLower(p))
Reverse(s) == [i \in 1..Len(s) |-> s[Len(s) + 1 - i]]

\* strings.Index and strings.LastIndex: zero-based, -1 when sub does not occur
Occurs(s, sub) == {i \in 0..(Len(s) - Len(sub)) : SubSeq(s, i + 1, i + Len(sub)) = sub}
Min(S) == CHOOSE x \in S : \A y \in S : x <= y
Max(S) == CHOOSE x \in S : \A y \in S : x >= y
Index(s, sub) == IF Occurs(s, sub) = {} THEN -1 ELSE Min(Occurs(s, sub))
LastIndex(s, sub) == IF Occurs(s, sub) = {} THEN -1 ELSE Max(Occurs(s, sub))

RECURSIVE Concat(_)
Concat(ss) == IF ss = <<>> THEN <<>> ELSE Head(ss) \o Concat(Tail(ss))

RECURSIVE Join(_, _)
Join(parts, sep) ==
    IF parts = <<>> THEN <<>>
    ELSE IF Len(parts) = 1 THEN parts[1]
    ELSE parts[1] \o sep \o Join(Tail(parts), sep)

\* strings.Split(s, sep) for a one-character sep: empty fields are kept
RECURSIVE Split(_, _)
Split(s, sep) ==
    LET i == Index(s, <<sep>>)
    IN  IF i = -1 THEN <<s>>
        ELSE <<SubSeq(s, 1, i)>> \o Split(SubSeq(s, i + 2, Len(s)), sep)

\* strings.SplitN(s, sep, 2)
SplitN2(s, sep) ==
    LET i == Index(s, <<sep>>)
    IN  IF i = -1 THEN <<s>> ELSE <<SubSeq(s, 1, i), SubSeq(s, i + 2, Len(s))>>

\* stringsutil.SplitAny: strings.FieldsFunc, which yields no empty field
RECURSIVE SplitAny(_, _)
SplitAny(s, seps) ==
    IF s = <<>> THEN <<>>
    ELSE IF s[1] \in seps THEN SplitAny(Tail(s), seps)
    ELSE LET stops == {i \in 1..Len(s) : s[i] \in seps}
             n == IF stops = {} THEN Len(s) ELSE Min(stops) - 1
         IN  <<SubSeq(s, 1, n)>> \o SplitAny(SubSeq(s, n + 1, Len(s)), seps)

\* stringsutil.SlideWithLength: a string shorter than l is yielded as it is
SlideWithLength(s, l) ==
    IF Len(s) < l THEN <<s>>
    ELSE [i \in 1..(Len(s) - l + 1) |-> SubSeq(s, i, i + l - 1)]

(***************************************************************************)
(* Storage contract (specification section 4.2).                           *)
(***************************************************************************)
AESKey(id) == <<"aes", id>>
RSAWrap(pub, key) == <<"rsa", pub, key>>
Encrypt(key, blob) == [key |-> key, blob |-> blob]
Decrypt(key, item) == IF item.key = key THEN item.blob ELSE 0

\* a bounded ringbuffer: the oldest items are dropped on overflow
Ring(q) == IF Len(q) > RingSize THEN SubSeq(q, Len(q) - RingSize + 1, Len(q)) ELSE q

Put(f, k, v) == [x \in DOMAIN f \cup {k} |-> IF x = k THEN v ELSE f[x]]
Drop(f, k) == [x \in DOMAIN f \ {k} |-> f[x]]

SetIDPublicKey(reg, id, secret, pub) ==
    IF id \in DOMAIN reg THEN [err |-> "duplicate", reg |-> reg]
    ELSE IF pub = BadKey THEN [err |-> "invalid_key", reg |-> reg]
    ELSE [err |-> "",
          reg |-> Put(reg, id, [secret |-> secret, pub |-> pub,
                                aes |-> AESKey(id), pending |-> <<>>])]

AddInteraction(reg, id, blob) ==
    IF id \notin DOMAIN reg THEN reg
    ELSE [reg EXCEPT ![id].pending = Ring(Append(@, Encrypt(reg[id].aes, blob)))]

AddInteractionWithId(ch, key, blob) ==
    [ch EXCEPT ![key] = Ring(Append(@, blob))]

GetInteractions(reg, id, secret) ==
    IF id \notin DOMAIN reg
    THEN [err |-> "not_found", data |-> <<>>, aes |-> <<>>, reg |-> reg]
    ELSE IF reg[id].secret # secret
    THEN [err |-> "wrong_secret", data |-> <<>>, aes |-> <<>>, reg |-> reg]
    ELSE [err |-> "", data |-> reg[id].pending,
          aes |-> RSAWrap(reg[id].pub, reg[id].aes),
          reg |-> [reg EXCEPT ![id].pending = <<>>]]

GetInteractionsWithId(ch, key) ==
    IF key \notin DOMAIN ch THEN [data |-> <<>>, ch |-> ch]
    ELSE [data |-> ch[key], ch |-> [ch EXCEPT ![key] = <<>>]]

RemoveID(reg, id, secret) ==
    IF id \notin DOMAIN reg THEN [err |-> "not_found", reg |-> reg]
    ELSE IF reg[id].secret # secret THEN [err |-> "wrong_secret", reg |-> reg]
    ELSE [err |-> "", reg |-> Drop(reg, id)]

(***************************************************************************)
(* HTTP control plane (http_server.go).  A handler is an operator from the *)
(* request and the state it reads to the status it answers and the state   *)
(* it leaves; the actions below apply the handlers.                        *)
(***************************************************************************)
TokenValue == Str("tk")
ChanKeys == DomainSet \cup {TokenValue}
Idle == [pc |-> "idle", id |-> <<>>, data |-> <<>>, aes |-> <<>>, tld |-> <<>>, i |-> 0]
NoResponse == [status |-> 0, data |-> <<>>, aes |-> <<>>, tld |-> <<>>, extra |-> <<>>]

\* jsonError / jsonMsg: a status and a JSON message, no interaction data
jsonError(code) == [NoResponse EXCEPT !.status = code]
jsonMsg(code) == [NoResponse EXCEPT !.status = code]

\* registerHandler with the storage error dropped
registerHandler_IgnoreErr(decodes, id, secret, pub) ==
    IF ~decodes
    THEN [resp |-> jsonError(400), registry |-> registry, Sessions |-> Sessions]
    ELSE [resp |-> jsonMsg(200),
          registry |-> SetIDPublicKey(registry, id, secret, pub).reg,
          Sessions |-> Sessions + 1]

registerHandler(decodes, id, secret, pub) ==
    IF ~decodes
    THEN [resp |-> jsonError(400), registry |-> registry, Sessions |-> Sessions]
    ELSE LET r == SetIDPublicKey(registry, id, secret, pub) IN
         [resp |-> IF r.err # "" THEN jsonError(400) ELSE jsonMsg(200),
          registry |-> r.reg, Sessions |-> Sessions + 1]

\* deregisterHandler taking a session off only when the record was removed
deregisterHandler_CountRemoved(decodes, id, secret) ==
    IF ~decodes
    THEN [resp |-> jsonError(400), registry |-> registry, Sessions |-> Sessions - 1]
    ELSE LET r == RemoveID(registry, id, secret) IN
         [resp |-> IF r.err # "" THEN jsonError(400) ELSE jsonMsg(200),
          registry |-> r.reg,
          Sessions |-> IF r.err # "" THEN Sessions ELSE Sessions - 1]

deregisterHandler(decodes, id, secret) ==
    IF ~decodes
    THEN [resp |-> jsonError(400), registry |-> registry, Sessions |-> Sessions - 1]
    ELSE LET r == RemoveID(registry, id, secret) IN
         [resp |-> IF r.err # "" THEN jsonError(400) ELSE jsonMsg(200),
          registry |-> r.reg, Sessions |-> Sessions - 1]

\* pollExtra with the Data field left out of the PollResponse
pollExtra_NoData(reg, ch, data, aes, tld) ==
    LET g == IF Token # <<>> THEN GetInteractionsWithId(ch, Token)
                           ELSE [data |-> <<>>, ch |-> ch] IN
    [resp |-> [status |-> 200, data |-> <<>>, aes |-> aes, tld |-> tld,
               extra |-> g.data],
     registry |-> reg, channel |-> g.ch, local |-> Idle]

\* the end of pollHandler: the drain of the auth token channel and the response
pollExtra(reg, ch, data, aes, tld) ==
    LET g == IF Token # <<>> THEN GetInteractionsWithId(ch, Token)
                           ELSE [data |-> <<>>, ch |-> ch] IN
    [resp |-> [status |-> 200, data |-> data, aes |-> aes, tld |-> tld,
               extra |-> g.data],
     registry |-> reg, channel |-> g.ch, local |-> Idle]

\* pollHandler without the return after the error of Storage.GetInteractions
pollHandler_NoReturn(reg, ch, id, secret) ==
    LET g == GetInteractions(reg, id, secret) IN
    IF id = <<>> \/ secret = ""
    THEN [resp |-> jsonError(400), registry |-> reg, channel |-> ch, local |-> Idle]
    ELSE IF g.err # ""
    THEN [pollExtra(reg, ch, <<>>, <<>>, <<>>) EXCEPT !.resp.status = 400]
    ELSE IF RootTLD /\ Len(Domains) > 0
    THEN [resp |-> NoResponse, registry |-> g.reg, channel |-> ch,
          local |-> [pc |-> "tld", id |-> id, data |-> g.data, aes |-> g.aes,
                     tld |-> <<>>, i |-> 1]]
    ELSE pollExtra(g.reg, ch, g.data, g.aes, <<>>)

\* pollHandler on the registry and the channels it finds, up to and including
\* Storage.GetInteractions; without root-TLD mode it goes on to the end in the
\* same step
pollHandler(reg, ch, id, secret) ==
    LET g == GetInteractions(reg, id, secret) IN
    IF id = <<>> \/ secret = "" \/ g.err # ""
    THEN [resp |-> jsonError(400), registry |-> reg, channel |-> ch, local |-> Idle]
    ELSE IF RootTLD /\ Len(Domains) > 0
    THEN [resp |-> NoResponse, registry |-> g.reg, channel |-> ch,
          local |-> [pc |-> "tld", id |-> id, data |-> g.data, aes |-> g.aes,
                     tld |-> <<>>, i |-> 1]]
    ELSE pollExtra(g.reg, ch, g.data, g.aes, <<>>)

\* pollTLD reading the channel of the domain without emptying it
pollTLD_NoDrain(l) ==
    LET g == GetInteractionsWithId(channel, Domains[l.i])
        tld == l.tld \o g.data IN
    IF l.i < Len(Domains)
    THEN [resp |-> NoResponse, registry |-> registry, channel |-> channel,
          local |-> [l EXCEPT !.tld = tld, !.i = @ + 1]]
    ELSE pollExtra(registry, channel, l.data, l.aes, tld)

\* one iteration of the loop over options.Domains; after the last one the
\* handler goes on to the end
pollTLD(l) ==
    LET g == GetInteractionsWithId(channel, Domains[l.i])
        tld == l.tld \o g.data IN
    IF l.i < Len(Domains)
    THEN [resp |-> NoResponse, registry |-> registry, channel |-> g.ch,
          local |-> [l EXCEPT !.tld = tld, !.i = @ + 1]]
    ELSE pollExtra(registry, g.ch, l.data, l.aes, tld)

Count(q, b) == Cardinality({k \in 1..Len(q) : q[k] = b})
Plain(data) == [k \in 1..Len(data) |-> data[k].blob]
\* the blobs of a response reach the client
Deliver(resp) ==
    [b \in DOMAIN delivered |->
        delivered[b] + Count(Plain(resp.data), b) + Count(resp.tld, b)
                     + Count(resp.extra, b)]

(***************************************************************************)
(* Actions of the control plane.                                           *)
(***************************************************************************)
Register(decodes, id, secret, pub) ==
    LET r == registerHandler(decodes, id, secret, pub) IN
    /\ r.Sessions <= MaxSessions
    /\ registry' = r.registry
    /\ Sessions' = r.Sessions
    /\ appended' = IF r.resp.status = 200 THEN [appended EXCEPT ![id] = <<>>]
                                          ELSE appended
    /\ UNCHANGED <<RootTLD, Token, channel, nextBlob, poll, delivered>>
    /\ UNCHANGED notCtl

Deregister(decodes, id, secret) ==
    LET r == deregisterHandler(decodes, id, secret) IN
    /\ r.Sessions > -MaxSessions
    /\ registry' = r.registry
    /\ Sessions' = r.Sessions
    /\ appended' = IF r.resp.status = 200 THEN [appended EXCEPT ![id] = <<>>]
                                          ELSE appended
    /\ UNCHANGED <<RootTLD, Token, channel, nextBlob, poll, delivered>>
    /\ UNCHANGED notCtl

Poll(p, id, secret) ==
    LET r == pollHandler(registry, channel, id, secret) IN
    /\ poll[p].pc = "idle"
    /\ registry' = r.registry
    /\ channel' = r.channel
    /\ poll' = [poll EXCEPT ![p] = r.local]
    /\ delivered' = Deliver(r.resp)
    /\ appended' = IF r.resp.status # 400 THEN [appended EXCEPT ![id] = <<>>]
                                          ELSE appended
    /\ UNCHANGED <<RootTLD, Token, Sessions, nextBlob>>
    /\ UNCHANGED notCtl

PollTLD(p) ==
    /\ poll[p].pc = "tld"
    /\ LET r == pollTLD(poll[p]) IN
       /\ channel' = r.channel
       /\ poll' = [poll EXCEPT ![p] = r.local]
       /\ delivered' = Deliver(r.resp)
    /\ UNCHANGED <<RootTLD, Token, registry, Sessions, nextBlob, appended>>
    /\ UNCHANGED notCtl

\* handleInteraction storing the interaction twice
InteractionArrives_Twice(id) ==
    /\ nextBlob <= MaxBlobs
    /\ registry' = AddInteraction(AddInteraction(registry, id, nextBlob), id, nextBlob)
    /\ appended' = IF id \in DOMAIN registry
                   THEN [appended EXCEPT ![id] = Append(@, nextBlob)] ELSE appended
    /\ nextBlob' = nextBlob + 1
    /\ UNCHANGED <<RootTLD, Token, channel, Sessions, poll, delivered>>
    /\ UNCHANGED notCtl

\* an adapter found a token: Storage.AddInteraction under its correlation id
InteractionArrives(id) ==
    /\ nextBlob <= MaxBlobs
    /\ registry' = AddInteraction(registry, id, nextBlob)
    /\ appended' = IF id \in DOMAIN registry
                   THEN [appended EXCEPT ![id] = Append(@, nextBlob)] ELSE appended
    /\ nextBlob' = nextBlob + 1
    /\ UNCHANGED <<RootTLD, Token, channel, Sessions, poll, delivered>>
    /\ UNCHANGED notCtl

\* root-TLD mode: a request to a configured domain is stored under its name
rootTLDInteraction(d) ==
    /\ RootTLD
    /\ nextBlob <= MaxBlobs
    /\ channel' = AddInteractionWithId(channel, d, nextBlob)
    /\ nextBlob' = nextBlob + 1
    /\ UNCHANGED <<RootTLD, Token, registry, Sessions, poll, appended, delivered>>
    /\ UNCHANGED notCtl

\* an interaction that carries the operator's token is stored under the token
tokenInteraction ==
    /\ Token # <<>>
    /\ nextBlob <= MaxBlobs
    /\ channel' = AddInteractionWithId(channel, Token, nextBlob)
    /\ nextBlob' = nextBlob + 1
    /\ UNCHANGED <<RootTLD, Token, registry, Sessions, poll, appended, delivered>>
    /\ UNCHANGED notCtl

(***************************************************************************)
(* Dynamic endpoint registry: /storerequest and /apidocs/ (http_server.go). *)
(***************************************************************************)
Cooldown == 24                     \* hours between two updates of a suburl
TickHours == Cooldown \div 2       \* the clock advances in steps of half a cool-down
MaxClock == 36                     \* the clock stops here
SubURLs == {"foo", "bar"}
\* the body and content type a handler's client publishes
Payload(p) == IF p = "h1" THEN [body |-> "hello", ct |-> "text/plain"]
                          ELSE [body |-> "world", ct |-> ""]
\* a /storerequest: its method, whether the body decodes, and the decoded suburl
StoreRequests ==
    {[method |-> "GET", decodes |-> TRUE, suburl |-> "foo"],
     [method |-> "POST", decodes |-> FALSE, suburl |-> ""],
     [method |-> "POST", decodes |-> TRUE, suburl |-> ""]}
    \cup {[method |-> "POST", decodes |-> TRUE, suburl |-> u] : u \in SubURLs}
NoStore == [pc |-> "idle", suburl |-> "", now |-> 0, status |-> 0, prev |-> -1]

\* storeHandler before it takes the lock: 405, 400, or 0 to go on
storeDecode(req) ==
    IF req.method # "POST" THEN 405
    ELSE IF ~req.decodes \/ req.suburl = "" THEN 400
    ELSE 0

\* storeCheck with the cool-down compared by <= instead of <
storeCheck_Inclusive(suburl, now) ==
    IF suburl \in DOMAIN dynamicEndpoints
       /\ now - dynamicEndpoints[suburl].LastUpdated <= Cooldown
    THEN 429 ELSE 0

\* storeHandler under the read lock: 429 inside the cool-down, or 0 to go on
storeCheck(suburl, now) ==
    IF suburl \in DOMAIN dynamicEndpoints
       /\ now - dynamicEndpoints[suburl].LastUpdated < Cooldown
    THEN 429 ELSE 0

\* storeHandler under the write lock: the entry is inserted or replaced
storeWrite(suburl, payload, now) ==
    Put(dynamicEndpoints, suburl,
        [Body |-> payload.body, ContentType |-> payload.ct, LastUpdated |-> now])

\* apidocsHandler without the Content-Type of the entry
apidocsHandler_NoContentType(path) ==
    IF path = "" \/ path \notin DOMAIN dynamicEndpoints
    THEN [status |-> 404, body |-> "", ct |-> "application/json; charset=utf-8"]
    ELSE [status |-> 200, body |-> dynamicEndpoints[path].Body, ct |-> ""]

\* apidocsHandler: what GET /apidocs/<path> is answered
apidocsHandler(path) ==
    IF path = "" \/ path \notin DOMAIN dynamicEndpoints
    THEN [status |-> 404, body |-> "", ct |-> "application/json; charset=utf-8"]
    ELSE [status |-> 200, body |-> dynamicEndpoints[path].Body,
          ct |-> dynamicEndpoints[path].ContentType]

\* the request is decoded; a request that is not valid is answered at once
StoreBegin(p, req) ==
    /\ store[p].pc = "idle"
    /\ store' = [store EXCEPT ![p] =
                    IF storeDecode(req) # 0 THEN NoStore
                    ELSE [NoStore EXCEPT !.pc = "rlock", !.suburl = req.suburl]]
    /\ UNCHANGED <<dynamicEndpoints, dynMu, clock, accepted>>
    /\ UNCHANGED notDyn

\* dynMu.RLock, the lookup, time.Now() and the cool-down test
StoreRLock(p) ==
    /\ store[p].pc = "rlock"
    /\ ~dynMu.writer
    /\ dynMu' = [dynMu EXCEPT !.readers = @ + 1]
    /\ store' = [store EXCEPT ![p].pc = "runlock", ![p].now = clock,
                              ![p].status = storeCheck(store[p].suburl, clock)]
    /\ UNCHANGED <<dynamicEndpoints, clock, accepted>>
    /\ UNCHANGED notDyn

\* dynMu.RUnlock; inside the cool-down the handler has answered 429 and returns
StoreRUnlock(p) ==
    /\ store[p].pc = "runlock"
    /\ dynMu' = [dynMu EXCEPT !.readers = @ - 1]
    /\ store' = [store EXCEPT ![p] = IF store[p].status = 429 THEN NoStore
                                     ELSE [store[p] EXCEPT !.pc = "lock"]]
    /\ UNCHANGED <<dynamicEndpoints, clock, accepted>>
    /\ UNCHANGED notDyn

\* dynMu.Lock and the write of the entry; prev keeps the LastUpdated of the
\* entry the write replaces (-1: there was none)
StoreLock(p) ==
    /\ store[p].pc = "lock"
    /\ ~dynMu.writer /\ dynMu.readers = 0
    /\ dynMu' = [dynMu EXCEPT !.writer = TRUE]
    /\ dynamicEndpoints' = storeWrite(store[p].suburl, Payload(p), store[p].now)
    /\ store' = [store EXCEPT ![p].pc = "unlock", ![p].status = 200,
                    ![p].prev = IF store[p].suburl \in DOMAIN dynamicEndpoints
                                THEN dynamicEndpoints[store[p].suburl].LastUpdated
                                ELSE -1]
    /\ UNCHANGED <<clock, accepted>>
    /\ UNCHANGED notDyn

\* dynMu.Unlock and the answer 200: the request is accepted
StoreUnlock(p) ==
    /\ store[p].pc = "unlock"
    /\ dynMu' = [dynMu EXCEPT !.writer = FALSE]
    /\ store' = [store EXCEPT ![p] = NoStore]
    /\ accepted' = Put(accepted, store[p].suburl, Payload(p))
    /\ UNCHANGED <<dynamicEndpoints, clock>>
    /\ UNCHANGED notDyn

\* time passes
Tick ==
    /\ clock + TickHours <= MaxClock
    /\ clock' = clock + TickHours
    /\ UNCHANGED <<dynamicEndpoints, dynMu, store, accepted>>
    /\ UNCHANGED notDyn

\* GET /apidocs/<path> arrives: apidocsHandler trims the prefix
ApidocsBegin(path) ==
    /\ phase \in {"idle", "served"}
    /\ httpReq' = [Route |-> "/apidocs/", suburl |-> path]
    /\ phase' = "apidocs"
    /\ UNCHANGED <<options, httpResp, calls>>
    /\ UNCHANGED <<ctlVars, dynVars>>

\* the lookup under dynMu.RLock and the answer; an empty path is answered
\* without the lock
ApidocsServe ==
    /\ phase = "apidocs"
    /\ httpReq.suburl = "" \/ ~dynMu.writer
    /\ httpResp' = apidocsHandler(httpReq.suburl)
    /\ phase' = "served"
    /\ UNCHANGED <<options, httpReq, calls>>
    /\ UNCHANGED <<ctlVars, dynVars>>

(***************************************************************************)
(* Correlation matcher (specification section 4.1) and URL reflection      *)
(* (server.go).                                                            *)
(***************************************************************************)
CorrelationIdLength == 1           \* options.CorrelationIdLength
CorrelationIdNonceLength == 1      \* options.CorrelationIdNonceLength
GetIdLength == CorrelationIdLength + CorrelationIdNonceLength

\* s has the length of a token, is lowercase alphanumeric and was allocated:
\* the registry holds an entry for its correlation id
isCorrelationID(s) ==
    /\ Len(s) = GetIdLength
    /\ \A i \in 1..Len(s) : s[i] \in LowerAlnum
    /\ SubSeq(s, 1, CorrelationIdLength) \in DOMAIN registry

\* some window of the part is accepted by the matcher
Accepted(part) ==
    \E k \in 1..Len(SlideWithLength(part, GetIdLength)) :
       isCorrelationID(SlideWithLength(part, GetIdLength)[k])

\* parts[:len(parts)-2] fails at run time when the host has fewer than two
\* labels; randomID is the last label with an accepted window
getURLIDComponent(URL) ==
    LET parts == Split(URL, ".")
        hits == {i \in 1..(Len(parts) - 2) : Accepted(parts[i])}
    IN  IF Len(parts) < 2 THEN [panic |-> TRUE, value |-> <<>>]
        ELSE IF hits = {} THEN [panic |-> FALSE, value |-> <<>>]
        ELSE [panic |-> FALSE, value |-> parts[Max(hits)]]

URLReflection(URL) ==
    LET randomID == getURLIDComponent(URL)
    IN  [panic |-> randomID.panic, value |-> Reverse(randomID.value)]

(***************************************************************************)
(* The request logger (http_server.go): the requests of the data plane and *)
(* the correlation scan.                                                   *)
(***************************************************************************)
\* r.URL.String(); the paths and queries of the model need no escaping
URLString(r) ==
    r.Path \o (IF r.RawQuery = <<>> THEN <<>> ELSE <<"?">> \o r.RawQuery)

\* httputil.DumpRequest of a GET request that carries no further header
DumpRequest(r) ==
    Str("GET ") \o URLString(r) \o Str(" HTTP/1.1\r\n")
    \o (IF r.Host = <<>> THEN <<>> ELSE Str("Host: ") \o r.Host \o Str("\r\n"))
    \o Str("\r\n")

\* Storage.AddInteraction under uniqueID[:CorrelationIdLength]
handleInteraction(uniqueID, fullID) ==
    [op |-> "AddInteraction", id |-> SubSeq(uniqueID, 1, CorrelationIdLength),
     unique_id |-> uniqueID, full_id |-> fullID]

\* the calls the windows of one chunk cause
scanChunk(chunk, fullID) ==
    LET w == SlideWithLength(chunk, GetIdLength)
    IN  Concat([k \in 1..Len(w) |->
                  IF isCorrelationID(ToLower(w[k]))
                  THEN <<handleInteraction(ToLower(w[k]), fullID)>> ELSE <<>>])

\* url-only mode
scanURL(r) ==
    LET parts == SplitAny(r.Host \o URLString(r), {".", "\n", "\t", "/"})
    IN  Concat([i \in 1..Len(parts) |->
                  scanChunk(parts[i], Join(SubSeq(parts, 1, i), <<".">>))])

\* scan-everywhere mode
scanEverywhere(r) ==
    LET chunks == SplitAny(DumpRequest(r), {"\n", "\t", "\"", "'", "/"})
    IN  Concat([i \in 1..Len(chunks) |-> scanChunk(chunks[i], chunks[i])])

\* root-TLD mode: the request is stored under every configured domain that
\* is a case-insensitive suffix of its host
rootTLD(r) ==
    Concat([k \in 1..Len(Domains) |->
              IF RootTLD /\ HasSuffixI(r.Host, Domains[k])
              THEN <<[op |-> "AddInteractionWithId", id |-> Domains[k],
                      unique_id |-> r.Host, full_id |-> r.Host]>>
              ELSE <<>>])

(***************************************************************************)
(* Bytes, query strings, numbers and base64 as net/url, strconv and        *)
(* encoding/base64 treat them.                                             *)
(***************************************************************************)
\* Bytes[n + 1] is the character with code n
Bytes ==
  <<
    "<00>", "<01>", "<02>", "<03>", "<04>", "<05>", "<06>", "<07>",
    "<08>", "\t", "\n", "<0b>", "<0c>", "\r", "<0e>", "<0f>",
    "<10>", "<11>", "<12>", "<13>", "<14>", "<15>", "<16>", "<17>",
    "<18>", "<19>", "<1a>", "<1b>", "<1c>", "<1d>", "<1e>", "<1f>",
    " ", "!", "\"", "#", "$", "%", "&", "'",
    "(", ")", "*", "+", ",", "-", ".", "/",
    "0", "1", "2", "3", "4", "5", "6", "7",
    "8", "9", ":", ";", "<", "=", ">", "?",
    "@", "A", "B", "C", "D", "E", "F", "G",
    "H", "I", "J", "K", "L", "M", "N", "O",
    "P", "Q", "R", "S", "T", "U", "V", "W",
    "X", "Y", "Z", "[", "\\", "]", "^", "_",
    "<60>", "a", "b", "c", "d", "e", "f", "g",
    "h", "i", "j", "k", "l", "m", "n", "o",
    "p", "q", "r", "s", "t", "u", "v", "w",
    "x", "y", "z", "{", "|", "}", "~", "<7f>",
    "<80>", "<81>", "<82>", "<83>", "<84>", "<85>", "<86>", "<87>",
    "<88>", "<89>", "<8a>", "<8b>", "<8c>", "<8d>", "<8e>", "<8f>",
    "<90>", "<91>", "<92>", "<93>", "<94>", "<95>", "<96>", "<97>",
    "<98>", "<99>", "<9a>", "<9b>", "<9c>", "<9d>", "<9e>", "<9f>",
    "<a0>", "<a1>", "<a2>", "<a3>", "<a4>", "<a5>", "<a6>", "<a7>",
    "<a8>", "<a9>", "<aa>", "<ab>", "<ac>", "<ad>", "<ae>", "<af>",
    "<b0>", "<b1>", "<b2>", "<b3>", "<b4>", "<b5>", "<b6>", "<b7>",
    "<b8>", "<b9>", "<ba>", "<bb>", "<bc>", "<bd>", "<be>", "<bf>",
    "<c0>", "<c1>", "<c2>", "<c3>", "<c4>", "<c5>", "<c6>", "<c7>",
    "<c8>", "<c9>", "<ca>", "<cb>", "<cc>", "<cd>", "<ce>", "<cf>",
    "<d0>", "<d1>", "<d2>", "<d3>", "<d4>", "<d5>", "<d6>", "<d7>",
    "<d8>", "<d9>", "<da>", "<db>", "<dc>", "<dd>", "<de>", "<df>",
    "<e0>", "<e1>", "<e2>", "<e3>", "<e4>", "<e5>", "<e6>", "<e7>",
    "<e8>", "<e9>", "<ea>", "<eb>", "<ec>", "<ed>", "<ee>", "<ef>",
    "<f0>", "<f1>", "<f2>", "<f3>", "<f4>", "<f5>", "<f6>", "<f7>",
    "<f8>", "<f9>", "<fa>", "<fb>", "<fc>", "<fd>", "<fe>", "<ff>"
  >>
Chr(n) == Bytes[n + 1]
Code(c) == IndexIn(Bytes, c) - 1

HexDigits == Str("0123456789abcdef")
ishex(c) == lower(c) \in Range(HexDigits)
unhex(c) == IndexIn(HexDigits, lower(c)) - 1

\* url.QueryUnescape: %XX is the byte XX, + is a space
validEscapes(s) ==
    \A i \in 1..Len(s) :
       s[i] = "%" => i + 2 <= Len(s) /\ ishex(s[i + 1]) /\ ishex(s[i + 2])
RECURSIVE unescape(_)
unescape(s) ==
    IF s = <<>> THEN <<>>
    ELSE IF s[1] = "%"
    THEN <<Chr(unhex(s[2]) * 16 + unhex(s[3]))>> \o unescape(SubSeq(s, 4, Len(s)))
    ELSE IF s[1] = "+" THEN <<" ">> \o unescape(Tail(s))
    ELSE <<s[1]>> \o unescape(Tail(s))

\* req.URL.Query(): the pairs of the raw query in order; a pair that does
\* not parse is left out
RECURSIVE ParseQuery(_)
ParseQuery(query) ==
    IF query = <<>> THEN <<>>
    ELSE LET i == Index(query, <<"&">>)
             key == IF i = -1 THEN query ELSE SubSeq(query, 1, i)
             rest == IF i = -1 THEN <<>> ELSE SubSeq(query, i + 2, Len(query))
             kv == SplitN2(key, "=")
             k == kv[1]
             v == IF Len(kv) = 2 THEN kv[2] ELSE <<>>
         IN  IF \/ ";" \in Range(key) \/ key = <<>>
                \/ ~validEscapes(k) \/ ~validEscapes(v)
             THEN ParseQuery(rest)
             ELSE <<[k |-> unescape(k), v |-> unescape(v)]>> \o ParseQuery(rest)

\* values[key] and values.Get(key)
Values(values, key) ==
    LET hits == SelectSeq(values, LAMBDA p : p.k = key)
    IN  [i \in 1..Len(hits) |-> hits[i].v]
Get(values, key) ==
    IF Values(values, key) = <<>> THEN <<>> ELSE Values(values, key)[1]

\* strconv.Atoi: an optional sign and decimal digits; 0 and an error otherwise
RECURSIVE decimal(_)
decimal(s) ==
    IF s = <<>> THEN 0
    ELSE 10 * decimal(SubSeq(s, 1, Len(s) - 1)) + (IndexIn(Digits, s[Len(s)]) - 1)
Atoi(s) ==
    LET signed == s # <<>> /\ s[1] \in {"+", "-"}
        d == IF signed THEN Tail(s) ELSE s
    IN  IF d = <<>> \/ \E i \in 1..Len(d) : d[i] \notin Range(Digits)
        THEN [err |-> TRUE, n |-> 0]
        ELSE [err |-> FALSE,
              n |-> IF signed /\ s[1] = "-" THEN 0 - decimal(d) ELSE decimal(d)]

\* base64.StdEncoding.DecodeString: the bytes decoded before the input ends
\* or turns out corrupt (the callers drop the error and keep the bytes)
B64 == Str("ABCDEFGHIJKLMNOPQRSTUVWXYZabcdefghijklmnopqrstuvwxyz0123456789+/")
b64val(s, i) == IF i <= Len(s) /\ s[i] \in Range(B64) THEN IndexIn(B64, s[i]) - 1 ELSE 0
RECURSIVE decodeQuanta(_)
decodeQuanta(s) ==
    LET n == Len(s)
        ok(i) == i <= n /\ s[i] \in Range(B64)
        j == IF ~ok(1) THEN 0 ELSE IF ~ok(2) THEN 1 ELSE IF ~ok(3) THEN 2
             ELSE IF ~ok(4) THEN 3 ELSE 4
        val == IF j < 2 THEN 0
               ELSE b64val(s, 1) * 262144 + b64val(s, 2) * 4096
                    + (IF j >= 3 THEN b64val(s, 3) * 64 ELSE 0)
                    + (IF j >= 4 THEN b64val(s, 4) ELSE 0)
        b1 == Chr(val \div 65536)
        b2 == Chr((val \div 256) % 256)
        b3 == Chr(val % 256)
    IN  IF n = 0 THEN <<>>
        ELSE IF j = 4 THEN <<b1, b2, b3>> \o decodeQuanta(SubSeq(s, 5, n))
        ELSE IF j = 3 /\ n >= 4 /\ s[4] = "=" THEN <<b1, b2>>
        ELSE IF j = 2 /\ n >= 4 /\ s[3] = "=" /\ s[4] = "=" THEN <<b1>>
        ELSE <<>>
DecodeString(s) == decodeQuanta(SelectSeq(s, LAMBDA c : c \notin {"\r", "\n"}))

(***************************************************************************)
(* The response a handler writes (httptest.ResponseRecorder, as logger and *)
(* the tests use it).  The first status written wins, a body write commits *)
(* status 200 when none was written, and a status outside 100..999 makes   *)
(* WriteHeader fail at run time; snapHeader is the header map as it was    *)
(* when the status was committed.  slept counts the seconds the handler    *)
(* has slept; codeAt and bodyAt are its value when the status was          *)
(* committed and when the first body byte was written.                     *)
(***************************************************************************)
NewRecorder ==
    [Code |-> 200, wroteHeader |-> FALSE, HeaderMap |-> <<>>, snapHeader |-> <<>>,
     Body |-> <<>>, panic |-> FALSE, slept |-> 0, codeAt |-> -1, bodyAt |-> -1]

TokenChars ==
    Range(Lowers) \cup Range(Uppers) \cup Range(Digits)
    \cup {"!", "#", "$", "%", "&", "'", "*", "+", "-", ".", "^", "_", "<60>", "|", "~"}
CanonicalMIMEHeaderKey(s) ==
    IF \E i \in 1..Len(s) : s[i] \notin TokenChars THEN s
    ELSE [i \in 1..Len(s) |->
            IF i = 1 \/ s[i - 1] = "-" THEN upper(s[i]) ELSE lower(s[i])]

HeaderGet(h, key) ==
    IF CanonicalMIMEHeaderKey(key) \in DOMAIN h
    THEN h[CanonicalMIMEHeaderKey(key)][1] ELSE <<>>
HeaderSet(w, key, value) ==
    [w EXCEPT !.HeaderMap = Put(@, CanonicalMIMEHeaderKey(key), <<value>>)]
HeaderAdd(w, key, value) ==
    LET k == CanonicalMIMEHeaderKey(key)
    IN  [w EXCEPT !.HeaderMap =
            Put(@, k, IF k \in DOMAIN @ THEN Append(@[k], value) ELSE <<value>>)]

WriteHeader(w, code) ==
    IF w.panic \/ w.wroteHeader THEN w
    ELSE IF code < 100 \/ code > 999 THEN [w EXCEPT !.panic = TRUE]
    ELSE [w EXCEPT !.Code = code, !.wroteHeader = TRUE, !.snapHeader = w.HeaderMap,
                   !.codeAt = w.slept]
Write(w, bytes) ==
    IF w.panic THEN w
    ELSE LET c == WriteHeader(w, 200)
         IN  [c EXCEPT !.Body = @ \o bytes,
                       !.bodyAt = IF @ = -1 THEN c.slept ELSE @]
Sleep(w, seconds) ==
    IF w.panic \/ seconds <= 0 THEN w ELSE [w EXCEPT !.slept = @ + seconds]

(***************************************************************************)
(* The dynamic response engine (http_server.go).                           *)
(***************************************************************************)
RECURSIVE addHeaders(_, _)
addHeaders(w, headers) ==
    IF headers = <<>> THEN w
    ELSE LET headerParts == SplitN2(Head(headers), ":")
         IN  addHeaders(IF Len(headerParts) = 2
                        THEN HeaderAdd(w, headerParts[1], headerParts[2]) ELSE w,
                        Tail(headers))

\* req.URL.Path[firstindex+10 : lastIndex] fails at run time when the bounds
\* are out of order
pathBody(w, req) ==
    LET firstindex == Index(req.Path, Str("/b64_body:"))
        lastIndex == LastIndex(req.Path, <<"/">>)
    IN  IF firstindex + 10 > lastIndex
        THEN [w EXCEPT !.panic = TRUE]
        ELSE Write(w, DecodeString(SubSeq(req.Path, firstindex + 11, lastIndex)))

\* the mutant writes the body before it commits the status
writeResponseFromDynamicRequest_BodyFirst(w, req) ==
    LET values == ParseQuery(req.RawQuery)
        w1 == IF HasPrefixI(req.Path, Str("/b64_body:")) THEN pathBody(w, req) ELSE w
        w2 == addHeaders(w1, Values(values, Str("header")))
        w3 == IF Get(values, Str("body")) # <<>>
              THEN Write(w2, Get(values, Str("body"))) ELSE w2
        w4 == IF Get(values, Str("delay")) # <<>>
              THEN Sleep(w3, Atoi(Get(values, Str("delay"))).n) ELSE w3
        w5 == IF Get(values, Str("status")) # <<>>
              THEN WriteHeader(w4, Atoi(Get(values, Str("status"))).n) ELSE w4
    IN  IF Get(values, Str("b64_body")) # <<>>
        THEN Write(w5, DecodeString(Get(values, Str("b64_body")))) ELSE w5

writeResponseFromDynamicRequest(w, req) ==
    LET values == ParseQuery(req.RawQuery)
        w1 == IF HasPrefixI(req.Path, Str("/b64_body:")) THEN pathBody(w, req) ELSE w
        w2 == addHeaders(w1, Values(values, Str("header")))
        w3 == IF Get(values, Str("delay")) # <<>>
              THEN Sleep(w2, Atoi(Get(values, Str("delay"))).n) ELSE w2
        w4 == IF Get(values, Str("status")) # <<>>
              THEN WriteHeader(w3, Atoi(Get(values, Str("status"))).n) ELSE w3
        w5 == IF Get(values, Str("body")) # <<>>
              THEN Write(w4, Get(values, Str("body"))) ELSE w4
    IN  IF Get(values, Str("b64_body")) # <<>>
        THEN Write(w5, DecodeString(Get(values, Str("b64_body")))) ELSE w5

(***************************************************************************)
(* The default data-plane handler (http_server.go).                        *)
(***************************************************************************)
Version == Str("1.2")                \* options.Version
Files == [n \in {<<"f">>} |-> Str("file")]   \* the files of options.HTTPDirectory

banner(domain) ==
    Str("<h1> Interactsh Server </h1> <b>*.") \o domain \o Str("</b>")

\* the first configured domain that is a suffix of the host, else the first
extractServerDomain(req) ==
    LET hits == {k \in 1..Len(Domains) : HasSuffixI(req.Host, Domains[k])}
    IN  IF hits # {} THEN Domains[Min(hits)] ELSE Domains[1]

\* http.NotFound
NotFound(w) ==
    Write(WriteHeader(HeaderSet(HeaderSet(w, Str("Content-Type"),
                                          Str("text/plain; charset=utf-8")),
                                Str("X-Content-Type-Options"), Str("nosniff")),
                      404),
          Str("404 page not found\n"))

\* http.StripPrefix("/s/", disableDirectoryListing(http.FileServer(dir)))
staticHandler(w, req) ==
    LET p == SubSeq(req.Path, 4, Len(req.Path))
    IN  IF ~HasPrefix(req.Path, Str("/s/")) THEN NotFound(w)
        ELSE IF p = <<>> \/ HasSuffix(p, <<"/">>) THEN NotFound(w)
        ELSE IF p \notin DOMAIN Files THEN NotFound(w)
        ELSE Write(WriteHeader(HeaderSet(w, Str("Content-Type"),
                                         Str("text/plain; charset=utf-8")), 200),
                   Files[p])

\* the /s/ branch applies header, delay and status itself, and a status only
\* when it parses
staticDynamic(w, req) ==
    LET values == ParseQuery(req.RawQuery)
        w1 == addHeaders(w, Values(values, Str("header")))
        delay == Atoi(Get(values, Str("delay")))
        w2 == IF Get(values, Str("delay")) # <<>> /\ ~delay.err
              THEN Sleep(w1, delay.n) ELSE w1
        status == Atoi(Get(values, Str("status")))
    IN  IF Get(values, Str("status")) # <<>> /\ ~status.err
        THEN WriteHeader(w2, status.n) ELSE w2

\* the mutant tries the banner branch after the dynamic response engine
defaultHandler_BannerLast(w, req) ==
    LET domain == extractServerDomain(req)
        w1 == HeaderSet(HeaderSet(w, Str("Server"), domain),
                        Str("X-Interactsh-Version"), Version)
        r == URLReflection(req.Host)
        reflection == r.value
    IN  IF r.panic THEN [w1 EXCEPT !.panic = TRUE]
        ELSE IF HasPrefixI(req.Path, Str("/s/")) /\ options.HTTPDirectory
        THEN staticHandler(IF options.DynamicResp /\ Len(ParseQuery(req.RawQuery)) > 0
                           THEN staticDynamic(w1, req) ELSE w1, req)
        ELSE IF EqualFold(req.Path, Str("/robots.txt"))
        THEN Write(w1, Str("User-agent: *\nDisallow: / # ") \o reflection)
        ELSE IF HasSuffixI(req.Path, Str(".json"))
        THEN HeaderSet(Write(w1, Str("{\"data\":\"") \o reflection \o Str("\"}")),
                       Str("Content-Type"), Str("application/json"))
        ELSE IF HasSuffixI(req.Path, Str(".xml"))
        THEN HeaderSet(Write(w1, Str("<data>") \o reflection \o Str("</data>")),
                       Str("Content-Type"), Str("application/xml"))
        ELSE IF /\ options.DynamicResp
                /\ \/ Len(ParseQuery(req.RawQuery)) > 0
                   \/ HasPrefixI(req.Path, Str("/b64_body:"))
        THEN writeResponseFromDynamicRequest(w1, req)
        ELSE IF req.Path = <<"/">> /\ reflection = <<>>
        THEN Write(w1, banner(domain))
        ELSE Write(w1, Str("<html><head></head><body>") \o reflection
                       \o Str("</body></html>"))

defaultHandler(w, req) ==
    LET domain == extractServerDomain(req)
        w1 == HeaderSet(HeaderSet(w, Str("Server"), domain),
                        Str("X-Interactsh-Version"), Version)
        r == URLReflection(req.Host)
        reflection == r.value
    IN  IF r.panic THEN [w1 EXCEPT !.panic = TRUE]
        ELSE IF HasPrefixI(req.Path, Str("/s/")) /\ options.HTTPDirectory
        THEN staticHandler(IF options.DynamicResp /\ Len(ParseQuery(req.RawQuery)) > 0
                           THEN staticDynamic(w1, req) ELSE w1, req)
        ELSE IF req.Path = <<"/">> /\ reflection = <<>>
        THEN Write(w1, banner(domain))
        ELSE IF EqualFold(req.Path, Str("/robots.txt"))
        THEN Write(w1, Str("User-agent: *\nDisallow: / # ") \o reflection)
        ELSE IF HasSuffixI(req.Path, Str(".json"))
        THEN HeaderSet(Write(w1, Str("{\"data\":\"") \o reflection \o Str("\"}")),
                       Str("Content-Type"), Str("application/json"))
        ELSE IF HasSuffixI(req.Path, Str(".xml"))
        THEN HeaderSet(Write(w1, Str("<data>") \o reflection \o Str("</data>")),
                       Str("Content-Type"), Str("application/xml"))
        ELSE IF /\ options.DynamicResp
                /\ \/ Len(ParseQuery(req.RawQuery)) > 0
                   \/ HasPrefixI(req.Path, Str("/b64_body:"))
        THEN writeResponseFromDynamicRequest(w1, req)
        ELSE Write(w1, Str("<html><head></head><body>") \o reflection
                       \o Str("</body></html>"))

\* the CORS headers of a request that is not a preflight
corsMiddleware(w, req) ==
    defaultHandler(
        HeaderSet(HeaderSet(HeaderSet(w,
            Str("Access-Control-Allow-Origin"), <<"*">>),
            Str("Access-Control-Allow-Credentials"), Str("true")),
            Str("Access-Control-Allow-Headers"), Str("Content-Type, Authorization")),
        req)

\* what the client receives from a recorder: the live header map, the body
\* and the status; nothing when the handler failed
NoResponseSent ==
    [aborted |-> FALSE, code |-> 0, header |-> <<>>, body |-> <<>>,
     slept |-> 0, codeAt |-> -1, bodyAt |-> -1]
Sent(rec) ==
    IF rec.panic THEN [NoResponseSent EXCEPT !.aborted = TRUE]
    ELSE [aborted |-> FALSE, code |-> rec.Code, header |-> rec.HeaderMap,
          body |-> rec.Body, slept |-> rec.slept, codeAt |-> rec.codeAt,
          bodyAt |-> rec.bodyAt]

\* rec.Result(): the status, the headers committed with it and the body
Result(rec) ==
    IF rec.panic THEN [NoResponseSent EXCEPT !.aborted = TRUE]
    ELSE [aborted |-> FALSE, code |-> rec.Code,
          header |-> IF rec.wroteHeader THEN rec.snapHeader ELSE rec.HeaderMap,
          body |-> rec.Body, slept |-> rec.slept, codeAt |-> rec.codeAt,
          bodyAt |-> rec.bodyAt]

\* logger: the wrapped handler answers into a recorder; when it returns, the
\* answer is copied to the client, then the request is stored under the
\* root-TLD channel and scanned
logger(r) ==
    LET after(rec) ==
            IF rec.panic THEN [resp |-> Sent(rec), calls |-> <<>>]
            ELSE [resp |-> Sent(rec),
                  calls |-> rootTLD(r) \o (IF options.ScanEverywhere
                                          THEN scanEverywhere(r) ELSE scanURL(r))]
    IN  after(corsMiddleware(NewRecorder, r))

\* the storage after the calls of a request
RECURSIVE applyCalls(_, _)
applyCalls(st, cs) ==
    IF cs = <<>> THEN st
    ELSE LET c == Head(cs)
             blob == [unique_id |-> c.unique_id, full_id |-> c.full_id]
         IN  applyCalls(
                IF c.op = "AddInteraction"
                THEN [st EXCEPT !.registry = AddInteraction(@, c.id, blob)]
                ELSE [st EXCEPT !.channel = AddInteractionWithId(@, c.id, blob)],
                Tail(cs))

\* a request to the route "/"
ServeHTTP ==
    /\ phase = "new"
    /\ \E o \in {logger(httpReq)} :
          /\ httpResp' = o.resp
          /\ calls' = o.calls
          /\ \E st \in {applyCalls([registry |-> registry, channel |-> channel],
                                    o.calls)} :
                registry' = st.registry /\ channel' = st.channel
    /\ phase' = "done"
    /\ UNCHANGED <<options, httpReq>>
    /\ UNCHANGED <<RootTLD, Token, Sessions, nextBlob, poll, appended, delivered>>
    /\ UNCHANGED dynVars

\* the client sends the request it has sent before once more; httpResp keeps
\* the answer it got until the new one is there
Again ==
    /\ phase = "done"
    /\ phase' = "new"
    /\ calls' = <<>>
    /\ UNCHANGED <<options, httpReq, httpResp>>
    /\ UNCHANGED <<ctlVars, dynVars>>

\* the dynamic response engine applied to a request, as its test applies it
DynamicRequest ==
    /\ phase = "new"
    /\ httpResp' = Result(writeResponseFromDynamicRequest(NewRecorder, httpReq))
    /\ phase' = "engine"
    /\ UNCHANGED <<options, httpReq, calls>>
    /\ UNCHANGED <<ctlVars, dynVars>>

(***************************************************************************)
(* The router of NewHTTPServer (http_server.go): the wrappers and the      *)
(* handler behind every pattern.  A routed request is handled in one step; *)
(* the outcome of a handler is its answer and the state it leaves.         *)
(***************************************************************************)
Outcome(resp) ==
    [resp |-> resp, registry |-> registry, channel |-> channel,
     Sessions |-> Sessions, dynamicEndpoints |-> dynamicEndpoints]

\* a missing Authorization header reads as the empty string
checkToken(req) ==
    ~options.Auth \/ (options.Auth /\ Token = req.Authorization)

\* authMiddleware: 401 without a body unless the token checks
authMiddleware(req, next) ==
    IF ~checkToken(req) THEN Outcome([NoResponse EXCEPT !.status = 401]) ELSE next

\* corsMiddleware around a control-plane handler: a preflight is answered 204
\* and goes no further
corsPreflight(req, next) ==
    IF req.method = "OPTIONS" THEN Outcome([NoResponse EXCEPT !.status = 204])
    ELSE next

registerRoute(req) ==
    LET r == registerHandler(req.decodes, req.id, req.secret, req.pub)
    IN  [Outcome(r.resp) EXCEPT !.registry = r.registry, !.Sessions = r.Sessions]

deregisterRoute(req) ==
    LET r == deregisterHandler(req.decodes, req.id, req.secret)
    IN  [Outcome(r.resp) EXCEPT !.registry = r.registry, !.Sessions = r.Sessions]

\* pollHandler of a server without root-TLD mode
pollRoute(req) ==
    LET r == pollHandler(registry, channel, req.id, req.secret)
    IN  [Outcome(r.resp) EXCEPT !.registry = r.registry, !.channel = r.channel]

\* storeHandler giving the entry a new LastUpdated when it answers 429
storeHandler_TouchOnRefusal(req) ==
    IF storeDecode(req) # 0 THEN Outcome(jsonError(storeDecode(req)))
    ELSE IF storeCheck(req.suburl, clock) # 0
    THEN [Outcome(jsonError(storeCheck(req.suburl, clock))) EXCEPT
             !.dynamicEndpoints =
                 [dynamicEndpoints EXCEPT ![req.suburl].LastUpdated = clock]]
    ELSE [Outcome(jsonMsg(200)) EXCEPT
             !.dynamicEndpoints = storeWrite(req.suburl, req.payload, clock)]

\* storeHandler when no other handler runs beside it
storeHandler(req) ==
    IF storeDecode(req) # 0 THEN Outcome(jsonError(storeDecode(req)))
    ELSE IF storeCheck(req.suburl, clock) # 0
    THEN Outcome(jsonError(storeCheck(req.suburl, clock)))
    ELSE [Outcome(jsonMsg(200)) EXCEPT
             !.dynamicEndpoints = storeWrite(req.suburl, req.payload, clock)]

\* metricsHandler: a snapshot of the counters
metricsHandler == Outcome(jsonMsg(200))

\* the pattern "/": logger around corsMiddleware around defaultHandler
defaultRoute(req) ==
    LET after(o, st) ==
            [Outcome([NoResponse EXCEPT !.status = o.resp.code]) EXCEPT
                !.registry = applyCalls(st, o.calls).registry,
                !.channel = applyCalls(st, o.calls).channel]
    IN  after(logger([Host |-> req.Host, Path |-> req.Path, RawQuery |-> <<>>]),
              [registry |-> registry, channel |-> channel])

\* router.Handle: req.Route is the pattern the path of the request falls
\* under; /metrics is registered only with options.EnableMetrics and falls
\* under "/" without it
ServeMux(req) ==
    CASE req.Route = "/storerequest" ->
            corsPreflight(req, authMiddleware(req, storeHandler(req)))
      [] req.Route = "/apidocs/" ->
            corsPreflight(req, Outcome(apidocsHandler(req.suburl)))
      [] req.Route = "/register" ->
            corsPreflight(req, authMiddleware(req, registerRoute(req)))
      [] req.Route = "/serve/" ->
            corsPreflight(req, authMiddleware(req, deregisterRoute(req)))
      [] req.Route = "/deregister" ->
            corsPreflight(req, authMiddleware(req, deregisterRoute(req)))
      [] req.Route = "/poll" ->
            corsPreflight(req, authMiddleware(req, pollRoute(req)))
      [] req.Route = "/metrics" /\ options.EnableMetrics ->
            corsPreflight(req, authMiddleware(req, metricsHandler))
      [] OTHER -> defaultRoute(req)

\* the server handles a request, one at a time
Route(req) ==
    /\ phase = "route"
    /\ \E o \in {ServeMux(req)} :
          /\ o.Sessions \in (1 - MaxSessions)..MaxSessions
          /\ registry' = o.registry
          /\ channel' = o.channel
          /\ Sessions' = o.Sessions
          /\ dynamicEndpoints' = o.dynamicEndpoints
          /\ httpResp' = o.resp
          /\ accepted' = IF req.Route = "/storerequest" /\ o.resp.status = 200
                         THEN Put(accepted, req.suburl, req.payload) ELSE accepted
    /\ httpReq' = req
    /\ UNCHANGED <<options, phase, calls>>
    /\ UNCHANGED <<RootTLD, Token, nextBlob, poll, appended, delivered>>
    /\ UNCHANGED <<dynMu, clock, store>>

\* no data-plane request is being served
NoRequest == [Host |-> <<>>, Path |-> <<>>, RawQuery |-> <<>>]
HttpParked ==
    /\ options = [ScanEverywhere |-> FALSE, DynamicResp |-> FALSE,
                  HTTPDirectory |-> FALSE, Auth |-> FALSE, EnableMetrics |-> FALSE]
    /\ httpReq = NoRequest
    /\ phase = "idle"
    /\ httpResp = NoResponseSent
    /\ calls = <<>>

DynInit ==
    /\ dynamicEndpoints = [x \in {} |-> 0]
    /\ dynMu = [readers |-> 0, writer |-> FALSE]
    /\ clock = 0
    /\ store = [p \in Procs |-> NoStore]
    /\ accepted = [x \in {} |-> 0]

CtlInit ==
    /\ RootTLD \in BOOLEAN
    /\ Token \in {<<>>, TokenValue}
    /\ registry = [x \in {} |-> 0]
    /\ channel = [k \in ChanKeys |-> <<>>]
    /\ Sessions = 0
    /\ nextBlob = 1
    /\ poll = [p \in Procs |-> Idle]
    /\ appended = [i \in Ids |-> <<>>]
    /\ delivered = [b \in 1..MaxBlobs |-> 0]

\* a request body either fails to decode or decodes to its fields
RegisterRequests ==
    {<<FALSE, <<>>, "", "">>}
    \cup {<<TRUE, id, s, k>> : id \in Ids, s \in Secrets, k \in PubKeys \cup {BadKey}}
DeregisterRequests ==
    {<<FALSE, <<>>, "">>} \cup {<<TRUE, id, s>> : id \in Ids, s \in Secrets}
PollRequests == (Ids \cup {<<>>}) \X (Secrets \cup {""})

Init == CtlInit /\ DynInit /\ HttpParked

Next ==
    \/ \E q \in RegisterRequests : Register(q[1], q[2], q[3], q[4])
    \/ \E q \in DeregisterRequests : Deregister(q[1], q[2], q[3])
    \/ \E p \in Procs, q \in PollRequests : Poll(p, q[1], q[2])
    \/ \E p \in Procs : PollTLD(p)
    \/ \E id \in Ids : InteractionArrives(id)
    \/ \E k \in 1..Len(Domains) : rootTLDInteraction(Domains[k])
    \/ tokenInteraction

Spec == Init /\ [][Next]_vars

\* the control plane at rest
CtlParked ==
    /\ RootTLD = FALSE
    /\ Token = <<>>
    /\ registry = [x \in {} |-> 0]
    /\ channel = [k \in ChanKeys |-> <<>>]
    /\ Sessions = 0
    /\ nextBlob = 1
    /\ poll = [p \in Procs |-> Idle]
    /\ appended = [i \in Ids |-> <<>>]
    /\ delivered = [b \in 1..MaxBlobs |-> 0]

InitStore == CtlParked /\ DynInit /\ HttpParked

NextStore ==
    \/ \E p \in Procs, req \in StoreRequests : StoreBegin(p, req)
    \/ \E p \in Procs : StoreRLock(p)
    \/ \E p \in Procs : StoreRUnlock(p)
    \/ \E p \in Procs : StoreLock(p)
    \/ \E p \in Procs : StoreUnlock(p)
    \/ Tick
    \/ \E path \in SubURLs \cup {""} : ApidocsBegin(path)
    \/ ApidocsServe

SpecStore == InitStore /\ [][NextStore]_vars

(***************************************************************************)
(* The data plane under scan: every host up to MaxHostLen characters, with *)
(* and without a registered client.                                        *)
(***************************************************************************)
MaxHostLen == 5
HostChars == {"a", "b", "A", "."}
Hosts == UNION {[1..n -> HostChars] : n \in 0..MaxHostLen}
\* hosts of the form A.B.domain.tld, with a token in A, in B or in both
LabelledHosts ==
    {Str("ab.aa.b.b"), Str("aa.ab.b.b"), Str("ab.bb.b.b"), Str("bb.ab.b.b"),
     Str("aab.ba.b.b"), Str("ab.Ab.b.b")}
ScanPaths == {Str("/ab"), Str("/robots.txt")}
ScanRequests ==
    {[Host |-> h, Path |-> p, RawQuery |-> <<>>] :
        h \in Hosts \cup LabelledHosts, p \in ScanPaths}

\* the registry with the client a registered
Client == SetIDPublicKey(<<>>, <<"a">>, "s1", "pk1").reg

\* the root-TLD block and the scan of logger do not touch each other: each is
\* switched with the other at its default
ScanModes ==
    {[RootTLD |-> FALSE, ScanEverywhere |-> FALSE],
     [RootTLD |-> TRUE, ScanEverywhere |-> FALSE],
     [RootTLD |-> FALSE, ScanEverywhere |-> TRUE]}

InitScan ==
    /\ \E m \in ScanModes :
          /\ RootTLD = m.RootTLD
          /\ options = [ScanEverywhere |-> m.ScanEverywhere, DynamicResp |-> FALSE,
                        HTTPDirectory |-> FALSE, Auth |-> FALSE,
                        EnableMetrics |-> FALSE]
    /\ Token = <<>>
    /\ registry \in {<<>>, Client}
    /\ channel = [k \in ChanKeys |-> <<>>]
    /\ Sessions = 0
    /\ nextBlob = 1
    /\ poll = [p \in Procs |-> Idle]
    /\ appended = [i \in Ids |-> <<>>]
    /\ delivered = [b \in 1..MaxBlobs |-> 0]
    /\ DynInit
    /\ httpReq \in ScanRequests
    /\ phase = "new"
    /\ httpResp = NoResponseSent
    /\ calls = <<>>

NextScan == ServeHTTP

SpecScan == InitScan /\ [][NextScan]_vars

(***************************************************************************)
(* The data plane under its options: a host with a token label, the bare   *)
(* domain and a single-label host, the paths of the branches of the        *)
(* default handler and the queries of the dynamic response engine.         *)
(***************************************************************************)
ServeHosts == {Str("ab.b.b"), Str("b.b"), <<"b">>}
ServePaths ==
    {<<"/">>, Str("/robots.txt"), Str("/x.json"), Str("/x.xml"), Str("/x"), Str("/s/f"),
     Str("/b64_body:YQ==/"), Str("/b64_body:YQ=="), Str("/B64_BODY:YQ==/"),
     Str("/b64_body:!/")}
ServeQueries ==
    {<<>>, Str("status=404"), Str("status=500&body=err"), Str("body=a+b"),
     Str("b64_body=YQ=="), Str("b64_body=Pj4%2B"), Str("b64_body=Pj4+"),
     Str("header=K:V"), Str("header=K:V&header=L:W"), Str("header=k-x:V&header=K-X:W"),
     Str("header=KV"), Str("delay=1"), Str("delay=1&status=404"), Str("delay=2&body=a"),
     Str("delay=x"), Str("status=0"), Str("status=abc"), Str("status=1000"), Str("x=1")}
ServeRequests ==
    {[Host |-> h, Path |-> p, RawQuery |-> q] :
        h \in ServeHosts, p \in ServePaths, q \in ServeQueries}

InitServe ==
    /\ RootTLD = FALSE
    /\ Token = <<>>
    /\ registry \in {<<>>, Client}
    /\ channel = [k \in ChanKeys |-> <<>>]
    /\ Sessions = 0
    /\ nextBlob = 1
    /\ poll = [p \in Procs |-> Idle]
    /\ appended = [i \in Ids |-> <<>>]
    /\ delivered = [b \in 1..MaxBlobs |-> 0]
    /\ DynInit
    /\ options \in [ScanEverywhere : {FALSE}, DynamicResp : BOOLEAN,
                    HTTPDirectory : BOOLEAN, Auth : {FALSE}, EnableMetrics : {FALSE}]
    /\ httpReq \in ServeRequests
    /\ phase = "new"
    /\ httpResp = NoResponseSent
    /\ calls = <<>>

NextServe ==
    \/ ServeHTTP
    \/ DynamicRequest

SpecServe == InitServe /\ [][NextServe]_vars

(***************************************************************************)
(* The data plane between registrations: a client sends one request again  *)
(* and again while ids are registered and deregistered.                    *)
(***************************************************************************)
ProbeHosts == {Str("ab.b.b"), Str("xab.b.b"), Str("b.b")}
ProbePaths == {<<"/">>, Str("/robots.txt"), Str("/ab")}
ProbeRequests ==
    {[Host |-> h, Path |-> p, RawQuery |-> <<>>] : h \in ProbeHosts, p \in ProbePaths}

InitProbe ==
    /\ RootTLD = FALSE
    /\ Token = <<>>
    /\ registry = [x \in {} |-> 0]
    /\ channel = [k \in ChanKeys |-> <<>>]
    /\ Sessions = 0
    /\ nextBlob = 1
    /\ poll = [p \in Procs |-> Idle]
    /\ appended = [i \in Ids |-> <<>>]
    /\ delivered = [b \in 1..MaxBlobs |-> 0]
    /\ DynInit
    /\ options \in [ScanEverywhere : BOOLEAN, DynamicResp : {FALSE},
                    HTTPDirectory : {FALSE}, Auth : {FALSE}, EnableMetrics : {FALSE}]
    /\ httpReq \in ProbeRequests
    /\ phase = "new"
    /\ httpResp = NoResponseSent
    /\ calls = <<>>

NextProbe ==
    \/ ServeHTTP
    \/ Again
    \/ \E q \in RegisterRequests : Register(q[1], q[2], q[3], q[4])
    \/ \E q \in DeregisterRequests : Deregister(q[1], q[2], q[3])

SpecProbe == InitProbe /\ [][NextProbe]_vars

(***************************************************************************)
(* The server behind its router: requests to every pattern, with and       *)
(* without operator auth, handled one after another.                       *)
(***************************************************************************)
Authorizations == {<<>>, TokenValue, Str("no")}
\* who sends: a method with an Authorization header; a preflight has none
Callers ==
    {<<m, a>> : m \in {"POST"}, a \in Authorizations} \cup {<<"OPTIONS", <<>>>>}
RoutedId == <<"a">>
BaseRequest ==
    [Route |-> "/", method |-> "GET", Authorization |-> <<>>, decodes |-> FALSE,
     id |-> <<>>, secret |-> "", pub |-> "", suburl |-> "",
     payload |-> Payload("h1"), Host |-> Str("ab.b.b"), Path |-> Str("/x")]
From(c, req) == [req EXCEPT !.method = c[1], !.Authorization = c[2]]
RoutedRequests ==
    {From(c, [BaseRequest EXCEPT !.Route = "/register", !.decodes = q[1],
                                 !.id = q[2], !.secret = q[3], !.pub = q[4]]) :
        c \in Callers,
        q \in {x \in RegisterRequests : x[2] \in {<<>>, RoutedId}}}
    \cup
    {From(c, [BaseRequest EXCEPT !.Route = rt, !.decodes = q[1], !.id = q[2],
                                 !.secret = q[3]]) :
        c \in Callers, rt \in {"/deregister", "/serve/"},
        q \in {x \in DeregisterRequests : x[2] \in {<<>>, RoutedId}}}
    \cup
    {From(c, [BaseRequest EXCEPT !.Route = "/poll", !.id = q[1], !.secret = q[2]]) :
        c \in Callers, q \in {x \in PollRequests : x[1] \in {<<>>, RoutedId}}}
    \cup
    {[BaseRequest EXCEPT !.Route = "/storerequest", !.method = q.method,
                         !.Authorization = a, !.decodes = q.decodes,
                         !.suburl = q.suburl] :
        a \in Authorizations, q \in {x \in StoreRequests : x.suburl # "bar"}}
    \cup
    {[BaseRequest EXCEPT !.Route = "/apidocs/", !.suburl = u] : u \in {"", "foo"}}
    \cup
    {From(c, [BaseRequest EXCEPT !.Route = "/metrics", !.Path = Str("/metrics")]) :
        c \in Callers}
    \cup
    {[BaseRequest EXCEPT !.Authorization = a] : a \in Authorizations}

InitRouter ==
    /\ RootTLD = FALSE
    /\ Token \in {<<>>, TokenValue}
    /\ registry = [x \in {} |-> 0]
    /\ channel = [k \in ChanKeys |-> <<>>]
    /\ Sessions = 0
    /\ nextBlob = 1
    /\ poll = [p \in Procs |-> Idle]
    /\ appended = [i \in Ids |-> <<>>]
    /\ delivered = [b \in 1..MaxBlobs |-> 0]
    /\ DynInit
    /\ options \in [ScanEverywhere : {FALSE}, DynamicResp : {FALSE},
                    HTTPDirectory : {FALSE}, Auth : BOOLEAN,
                    EnableMetrics : BOOLEAN]
    /\ httpReq = BaseRequest
    /\ phase = "route"
    /\ httpResp = NoResponse
    /\ calls = <<>>

NextRouter == \E req \in RoutedRequests : Route(req)

SpecRouter == InitRouter /\ [][NextRouter]_vars

(***************************************************************************)
(* The dynamic endpoint registry behind the router, with time passing:     *)
(* /storerequest requests of every kind, one after another.                *)
(***************************************************************************)
RoutedStoreRequests ==
    {[BaseRequest EXCEPT !.Route = "/storerequest", !.method = q.method,
                         !.decodes = q.decodes, !.suburl = q.suburl,
                         !.payload = Payload(p)] :
        q \in StoreRequests, p \in Procs}

InitRefuse == InitRouter

NextRefuse ==
    \/ \E req \in RoutedStoreRequests : Route(req)
    \/ Tick

SpecRefuse == InitRefuse /\ [][NextRefuse]_vars

(***************************************************************************)
(* Claims about the control plane.                                         *)
(***************************************************************************)
Registered == DOMAIN registry
Suffix(q, n) == IF Len(q) > n THEN SubSeq(q, Len(q) - n + 1, Len(q)) ELSE q
Opened(id, data) == [k \in 1..Len(data) |-> Decrypt(AESKey(id), data[k])]
\* the client's own blobs a poll step has fetched
Fetched(r) == IF r.local.pc = "idle" THEN r.resp.data ELSE r.local.data
FetchedKey(r) == IF r.local.pc = "idle" THEN r.resp.aes ELSE r.local.aes
Authentic(id, secret) ==
    id # <<>> /\ secret # "" /\ id \in Registered /\ registry[id].secret = secret

\* what the round trip promises of a poll that returns `expected`
RoundTrip(expected(_)) ==
    /\ \A q \in PollRequests :
          Authentic(q[1], q[2]) =>
             LET r == pollHandler(registry, channel, q[1], q[2]) IN
             /\ r.resp.status # 400
             /\ Opened(q[1], Fetched(r)) = expected(q[1])
             /\ FetchedKey(r) # <<>>
             /\ r.registry[q[1]].pending = <<>>
             /\ pollHandler(r.registry, r.channel, q[1], q[2]).resp.data = <<>>
    /\ \A p \in Procs :
          (poll[p].pc = "tld" /\ pollTLD(poll[p]).local.pc = "idle") =>
             LET r == pollTLD(poll[p]) IN
             /\ r.resp.status = 200
             /\ r.resp.data = poll[p].data
             /\ r.resp.aes = poll[p].aes
AllAppended(id) == appended[id]
LastAppended(id) == Suffix(appended[id], RingSize)

\* C1 as stated: a poll with (id, secret) returns exactly the n blobs appended
\* under id since the registration or the previous poll, in append order, with a
\* non-empty aes_key, and a second poll right after it returns no blob.
C1_RoundTripAll == RoundTrip(AllAppended)

\* C1 amended: the poll returns, in append order, the last RingSize of the n
\* appended blobs (all of them when n does not exceed the ringbuffer capacity),
\* with a non-empty aes_key, and a second poll right after it returns no blob.
C1_RoundTrip == RoundTrip(LastAppended)

\* a poll has fetched two blobs at once and is on its way to the response
C1_Witness == \E p \in Procs : poll[p].pc = "tld" /\ Len(poll[p].data) = 2

PollFails(id, secret) == ~Authentic(id, secret)
DeregisterFails(decodes, id, secret) ==
    ~decodes \/ id \notin Registered \/ registry[id].secret # secret

\* C2: a /poll or /deregister that fails is answered 400 and consumes nothing;
\* every queue and channel holds the same blobs and every record still exists.
C2_FailedRequestConsumesNothing ==
    /\ \A q \in PollRequests :
          PollFails(q[1], q[2]) =>
             LET r == pollHandler(registry, channel, q[1], q[2]) IN
             /\ r.resp.status = 400
             /\ r.registry = registry /\ r.channel = channel /\ r.local = Idle
             /\ Deliver(r.resp) = delivered
    /\ \A q \in DeregisterRequests :
          DeregisterFails(q[1], q[2], q[3]) =>
             LET r == deregisterHandler(q[1], q[2], q[3]) IN
             /\ r.resp.status = 400
             /\ r.registry = registry

\* more deregistrations than removals have been served, and a record with
\* pending blobs and a non-empty channel are still in place
C2_Witness ==
    /\ Sessions < 0
    /\ \E id \in Registered : registry[id].pending # <<>>
    /\ \E k \in ChanKeys : channel[k] # <<>>

\* C3: at most once: whatever the interleaving of appends and polls, no blob is
\* part of more than one poll response (nor twice part of one).
C3_AtMostOnce == \A b \in DOMAIN delivered : delivered[b] <= 1

\* a blob has been delivered while another poll is between its storage calls
C3_Witness ==
    /\ \E b \in DOMAIN delivered : delivered[b] = 1
    /\ \E p \in Procs : poll[p].pc = "tld" /\ poll[p].data # <<>>

\* C4: a /register under an id with a live record is answered 400 and leaves
\* the record as it was; afterwards a poll with the original secret succeeds
\* and a poll with another secret of the rejected request fails.
C4_DuplicateRegisterRejected ==
    \A q \in RegisterRequests :
       (q[1] /\ q[2] \in Registered) =>
          LET r == registerHandler(q[1], q[2], q[3], q[4]) IN
          /\ r.resp.status = 400
          /\ r.registry = registry
          /\ pollHandler(r.registry, channel, q[2],
                         registry[q[2]].secret).resp.status # 400
          /\ q[3] # registry[q[2]].secret =>
                pollHandler(r.registry, channel, q[2], q[3]).resp.status = 400

\* more decoded registrations than records: one was turned down, and a record
\* with pending blobs is live
C4_Witness ==
    /\ Sessions > Cardinality(Registered)
    /\ \E id \in Registered : registry[id].pending # <<>>

(***************************************************************************)
(* Claims about the dynamic endpoint registry.                             *)
(***************************************************************************)
\* an entry for the suburl exists and was updated less than 24 h before now
InCooldown(suburl, now) ==
    \E u \in DOMAIN dynamicEndpoints :
       u = suburl /\ now - dynamicEndpoints[u].LastUpdated < 24
Served(u) == apidocsHandler(u)

\* C5: a valid POST /storerequest for suburl s is answered 429 exactly when an
\* entry for s exists whose last_updated is less than 24 h before now, and 200
\* otherwise, whatever the entries of other suburls; a 429 leaves the map
\* untouched and GET /apidocs/s serves what it served before; a 200 makes
\* /apidocs/s serve the body and content type of the request.
C5_CooldownDecides ==
    [][\A p \in Procs :
          /\ (store[p].pc = "runlock" /\ store'[p].pc # "runlock") =>
                IF InCooldown(store[p].suburl, store[p].now)
                THEN /\ store[p].status = 429 /\ store'[p].pc = "idle"
                     /\ dynamicEndpoints' = dynamicEndpoints
                     /\ \A u \in SubURLs : Served(u)' = Served(u)
                ELSE /\ store[p].status # 429 /\ store'[p].pc = "lock"
          /\ (store[p].pc = "lock" /\ store'[p].pc # "lock") =>
                /\ store'[p].status = 200
                /\ Served(store[p].suburl)' =
                      [status |-> 200, body |-> Payload(p).body, ct |-> Payload(p).ct]
                /\ \A u \in SubURLs \ {store[p].suburl} : Served(u)' = Served(u)]_vars

\* a request for a suburl is turned down at the end of a cool-down window while
\* the other suburl has no entry and /apidocs/ serves the first body
C5_Witness ==
    \E p \in Procs :
       /\ store[p].pc = "runlock" /\ store[p].status = 429
       /\ store[p].now - dynamicEndpoints[store[p].suburl].LastUpdated = TickHours
       /\ Served(store[p].suburl).status = 200
       /\ \E u \in SubURLs : Served(u).status = 404

\* C6: under every interleaving of /storerequest handlers an entry is never
\* written less than 24 h after the last_updated of the entry it replaces, and
\* of two overlapping requests for the same new suburl only one is accepted.
C6_CooldownUnderConcurrency ==
    \A p \in Procs :
       (store[p].pc = "unlock" /\ store[p].prev >= 0) =>
          store[p].now - store[p].prev >= 24

\* the blobs a poll with (id, secret) hands to the client in this state
Polled(id, secret) ==
    Opened(id, Fetched(pollHandler(registry, channel, id, secret)))

\* C15 as stated: when writers have appended under the same registered id,
\* in any interleaving, a poll that follows returns as many blobs as were
\* appended, every appended blob exactly once.
C15_ConcurrentAppendsAllReturned ==
    \A q \in PollRequests :
       Authentic(q[1], q[2]) =>
          /\ Len(Polled(q[1], q[2])) = Len(appended[q[1]])
          /\ \A k \in 1..Len(appended[q[1]]) :
                Count(Polled(q[1], q[2]), appended[q[1]][k]) = 1

\* C15 as amended: the poll returns min(n, capacity) blobs of the n appended
\* ones, namely each of the last min(n, capacity) exactly once and no other;
\* all n when n does not exceed the capacity of the ringbuffer.
C15_ConcurrentAppendsWithinCapacity ==
    \A q \in PollRequests :
       Authentic(q[1], q[2]) =>
          /\ Len(Polled(q[1], q[2])) = Min({Len(appended[q[1]]), RingSize})
          /\ \A k \in 1..Len(LastAppended(q[1])) :
                Count(Polled(q[1], q[2]), LastAppended(q[1])[k]) = 1
          /\ \A k \in 1..Len(Polled(q[1], q[2])) :
                Polled(q[1], q[2])[k] \in Range(LastAppended(q[1]))

\* more blobs were appended under an id than its ringbuffer holds, and the
\* ringbuffer is full
C15_Witness ==
    \E id \in Registered :
       Len(appended[id]) > RingSize /\ Len(registry[id].pending) = RingSize

\* C12: GET /apidocs/<suburl> is answered 404 exactly when the suburl is empty
\* or no /storerequest for it has been accepted, and otherwise 200 with the
\* body and the content type of the /storerequest accepted last for it;
\* serving the request leaves the dynamic-endpoint map as it is.
C12_ApidocsServesLastAccepted ==
    [][(phase = "apidocs" /\ phase' = "served") =>
          /\ dynamicEndpoints' = dynamicEndpoints
          /\ IF httpReq.suburl = "" \/ httpReq.suburl \notin DOMAIN accepted
             THEN httpResp'.status = 404
             ELSE /\ httpResp'.status = 200
                  /\ httpResp'.body = accepted[httpReq.suburl].body
                  /\ httpResp'.ct = accepted[httpReq.suburl].ct]_vars

\* a suburl published again after its cool-down is served with what was
\* accepted last, while the other suburl is unknown
C12_Witness ==
    /\ phase = "served" /\ httpReq.suburl \in DOMAIN accepted
    /\ dynamicEndpoints[httpReq.suburl].LastUpdated >= Cooldown
    /\ httpResp = [status |-> 200, body |-> accepted[httpReq.suburl].body,
                   ct |-> accepted[httpReq.suburl].ct]
    /\ \E u \in SubURLs : u \notin DOMAIN accepted

(***************************************************************************)
(* Claims about the router: operator auth, the life of a client record and *)
(* the session counter.                                                    *)
(***************************************************************************)
\* the patterns NewHTTPServer puts behind authMiddleware; /metrics is one of
\* them when it is registered
BehindAuth ==
    {"/register", "/deregister", "/poll", "/storerequest"}
    \cup (IF options.EnableMetrics THEN {"/metrics"} ELSE {})
Preflight(req) == req.method = "OPTIONS"
\* the Authorization header is missing or is not the operator token
NoCredentials(req) == req.Authorization = <<>> \/ req.Authorization # Token
ServerState == <<registry, channel, Sessions, dynamicEndpoints>>

\* C11: with operator auth on, a request (other than a CORS preflight) to
\* /register, /deregister, /poll, /storerequest or /metrics whose
\* Authorization header is missing or differs from the operator token is
\* answered 401 and leaves the client registry, the queues, the session
\* counter and the dynamic-endpoint map unchanged, whatever the configured
\* token is, the empty string included.
C11_AuthGuards ==
    [][(/\ options.Auth
        /\ httpReq'.Route \in BehindAuth
        /\ ~Preflight(httpReq')
        /\ NoCredentials(httpReq')) =>
          (httpResp'.status = 401 /\ UNCHANGED ServerState)]_vars


\* C13: over the HTTP surface a client record is created only by a request
\* to /register and destroyed only by a request to /deregister; a request to
\* any other route creates no record, removes none and does not run the
\* deregistration logic (which also takes one off the session counter).
C13_RecordLifecycle ==
    [][/\ DOMAIN registry' \ DOMAIN registry # {} => httpReq'.Route = "/register"
       /\ DOMAIN registry \ DOMAIN registry' # {} => httpReq'.Route = "/deregister"
       /\ Sessions' < Sessions => httpReq'.Route = "/deregister"]_vars

\* a request the router hands to the handler behind its pattern
Handled(req) == ~Preflight(req) /\ checkToken(req)

\* C16: the session counter counts requests, not records: every /register
\* request that reaches its handler with a body that decodes adds exactly one
\* and every such /deregister request takes exactly one off, whether the
\* storage call then succeeds (200) or fails (400).
C16_SessionsCountRequests ==
    [][/\ (httpReq'.Route = "/register" /\ Handled(httpReq') /\ httpReq'.decodes)
            => Sessions' = Sessions + 1
       /\ (httpReq'.Route = "/deregister" /\ Handled(httpReq') /\ httpReq'.decodes)
            => Sessions' = Sessions - 1]_vars
\* a /deregister body that decoded was refused by the store, and the counter
\* has gone below the number of records
C16_Witness ==
    /\ httpReq.Route = "/deregister" /\ Handled(httpReq) /\ httpReq.decodes
    /\ httpResp.status = 400
    /\ Sessions < Cardinality(DOMAIN registry)

(***************************************************************************)
(* Claims about the correlation scan and URL reflection.                   *)
(***************************************************************************)
\* the text url-only mode scans, and its parts: the maximal runs of
\* characters other than '.', newline, tab and '/'
Text == httpReq.Host \o URLString(httpReq)
Seps == {".", "\n", "\t", "/"}
IsPart(i, j) ==
    /\ i <= j
    /\ \A k \in i..j : Text[k] \notin Seps
    /\ i = 1 \/ Text[i - 1] \in Seps
    /\ j = Len(Text) \/ Text[j + 1] \in Seps
PartsOf == {ij \in (1..Len(Text)) \X (1..Len(Text)) : IsPart(ij[1], ij[2])}

\* the tokens the registry has allocated
Tokens ==
    {t \in [1..GetIdLength -> LowerAlnum] :
        SubSeq(t, 1, CorrelationIdLength) \in DOMAIN registry}

\* the windows of a part that spell a token, whatever their letter case
Windows ==
    {ik \in PartsOf \X (1..Len(Text)) :
        /\ ik[2] >= ik[1][1] /\ ik[2] + GetIdLength - 1 <= ik[1][2]
        /\ ToLower(SubSeq(Text, ik[2], ik[2] + GetIdLength - 1)) \in Tokens}

\* the parts up to position j, joined with '.'
RECURSIVE Dotted(_)
Dotted(s) ==
    IF s = <<>> THEN <<>>
    ELSE IF s[1] \in Seps
    THEN (IF Len(s) >= 2 /\ s[2] \notin Seps THEN <<".">> ELSE <<>>) \o Dotted(Tail(s))
    ELSE <<s[1]>> \o Dotted(Tail(s))
FullIdUpTo(j) ==
    LET d == Dotted(SubSeq(Text, 1, j))
    IN  IF d # <<>> /\ d[1] = "." THEN Tail(d) ELSE d

AddInteractionCalls == {k \in 1..Len(calls) : calls[k].op = "AddInteraction"}

\* the scan of a request that was handled in url-only mode is exact
ScanIsExact ==
    /\ \A ij \in PartsOf :
          SubSeq(Text, ij[1], ij[2]) \in Tokens =>
             \E k \in AddInteractionCalls :
                /\ calls[k] = [op |-> "AddInteraction",
                               id |-> SubSeq(Text, ij[1], ij[1] + CorrelationIdLength - 1),
                               unique_id |-> SubSeq(Text, ij[1], ij[2]),
                               full_id |-> FullIdUpTo(ij[2])]
                /\ \A m \in AddInteractionCalls :
                      (calls[m].unique_id = calls[k].unique_id
                          /\ calls[m].full_id = calls[k].full_id) => m = k
    /\ Cardinality(AddInteractionCalls) = Cardinality(Windows)

\* C7: in url-only mode a request whose host plus URL holds a registered
\* token as a whole part causes exactly one add_interaction call for that
\* occurrence, under the first CorrelationIdLength characters of the token,
\* with the token as unique_id and the parts up to it joined with '.' as
\* full_id (and one call per matching window in all); a request without a
\* matching window causes none.
C7_ScanURL ==
    (phase = "done" /\ ~options.ScanEverywhere) => ScanIsExact

\* no character of s is an uppercase letter
NoUpper(s) == \A i \in 1..Len(s) : s[i] \notin Range(Uppers)

\* C17: every record the scan of a request stores, in url-only mode and in
\* scan-everywhere mode, has a unique_id and a full_id without an uppercase
\* character, whatever the letter case of the host and URL of the request.
C17_StoredIdsAreLowercase ==
    phase = "done" =>
       \A k \in AddInteractionCalls :
          NoUpper(calls[k].unique_id) /\ NoUpper(calls[k].full_id)

\* the same for the requests whose handler returns
ServedScanIsExact ==
    (phase = "done" /\ ~options.ScanEverywhere /\ ~httpResp.aborted) => ScanIsExact

\* the places of the host where a registered token stands
HostTokens ==
    {i \in 1..(Len(httpReq.Host) - GetIdLength + 1) :
        SubSeq(httpReq.Host, i, i + GetIdLength - 1) \in Tokens}
RobotsTxt == Str("/robots.txt")
RobotsBody == Str("User-agent: *\nDisallow: / # ")

\* C8: for a host that contains a registered token t the reflection echoed
\* at the end of the /robots.txt body is the character-reverse of t, and for
\* a host that contains no token the reflection is empty.
C8_ReflectionIsReversedToken ==
    (phase = "done" /\ httpReq.Path = RobotsTxt) =>
       /\ HostTokens = {} => (~httpResp.aborted /\ httpResp.body = RobotsBody)
       /\ \A i \in HostTokens :
             HostTokens = {i} =>
                httpResp.body =
                   RobotsBody \o Reverse(SubSeq(httpReq.Host, i, i + GetIdLength - 1))

\* the candidates of the host that the matcher accepts: a window k of a label
\* i before the last two labels
Labels == Split(httpReq.Host, ".")
AcceptedCandidates ==
    {c \in (1..(Len(Labels) - 2)) \X (1..Len(httpReq.Host)) :
        /\ c[2] <= Len(SlideWithLength(Labels[c[1]], GetIdLength))
        /\ isCorrelationID(SlideWithLength(Labels[c[1]], GetIdLength)[c[2]])}
\* scanning order: label by label, window by window
ScannedBefore(c, d) == c[1] < d[1] \/ (c[1] = d[1] /\ c[2] < d[2])
LastAccepted ==
    CHOOSE c \in AcceptedCandidates :
       \A d \in AcceptedCandidates : d = c \/ ScannedBefore(d, c)
LastMatch ==
    IF AcceptedCandidates = {} THEN <<>> ELSE Labels[LastAccepted[1]]
LastMatchIsEchoed ==
    ~httpResp.aborted /\ httpResp.body = RobotsBody \o Reverse(LastMatch)

\* C18: getURLIDComponent(host) returns the value the last accepted candidate
\* determines, the label around it (for a host A.B.domain.tld with a token in
\* A and in B the label B), and the empty string when no candidate is
\* accepted; seen in the reflection that /robots.txt echoes reversed.
C18_LastMatchWins ==
    (phase = "done" /\ httpReq.Path = RobotsTxt) => LastMatchIsEchoed

\* the same for the hosts of two labels and more
LastMatchWinsOnDomains ==
    (phase = "done" /\ httpReq.Path = RobotsTxt /\ Len(Labels) >= 2)
       => LastMatchIsEchoed

\* the correlation ids the request embeds: the first CorrelationIdLength
\* characters of every window of token width of its host and URL
EmbeddedIds ==
    {ToLower(SubSeq(Text, i, i + CorrelationIdLength - 1)) :
        i \in 1..(Len(Text) - GetIdLength + 1)}

\* C14: the answer to a data-plane request (status, headers and body, the
\* reflection included) does not depend on whether the correlation id its
\* host embeds is registered: sent again after ids were registered or
\* deregistered, the request gets the answer it got before; and while no
\* embedded id is registered, serving it stores nothing.
C14_RegistrationIsNotObservable ==
    [][(phase = "new" /\ phase' = "done") =>
          /\ httpResp # NoResponseSent => httpResp' = httpResp
          /\ EmbeddedIds \cap DOMAIN registry = {} =>
                (registry' = registry /\ channel' = channel)]_vars

(***************************************************************************)
(* Claims about the dynamic response engine and the default handler.       *)
(***************************************************************************)
Params == ParseQuery(httpReq.RawQuery)
Only(keys) == Params # <<>> /\ \A i \in 1..Len(Params) : Params[i].k \in keys
NoPathBody == ~HasPrefixI(httpReq.Path, Str("/b64_body:"))

\* base64 in the standard alphabet with padding
RECURSIVE StdEncode(_)
StdEncode(x) ==
    IF x = <<>> THEN <<>>
    ELSE LET n == Len(x)
             v == Code(x[1]) * 65536 + (IF n >= 2 THEN Code(x[2]) * 256 ELSE 0)
                  + (IF n >= 3 THEN Code(x[3]) ELSE 0)
             c1 == B64[(v \div 262144) + 1]
             c2 == B64[((v \div 4096) % 64) + 1]
             c3 == B64[((v \div 64) % 64) + 1]
             c4 == B64[(v % 64) + 1]
         IN  IF n = 1 THEN <<c1, c2, "=", "=">>
             ELSE IF n = 2 THEN <<c1, c2, c3, "=">>
             ELSE <<c1, c2, c3, c4>> \o StdEncode(SubSeq(x, 4, n))
Plaintexts == {<<"a">>, Str("ab"), Str(">>>")}

\* a decimal number without sign
RECURSIVE Numeral(_)
Numeral(n) ==
    IF n < 10 THEN <<Digits[n + 1]>> ELSE Numeral(n \div 10) \o <<Digits[(n % 10) + 1]>>

\* C9: the dynamic response engine applied to a request with a single query
\* parameter answers status=n with status n, body=X with the body X,
\* b64_body=base64(X) with the body X and every header=K:V with a header K
\* of value V; with delay=d the status and the query body are produced only
\* after d seconds have passed.
C9_EngineParameters ==
    (phase = "engine" /\ NoPathBody) =>
       /\ Only({Str("status")}) =>
             \A n \in 100..999 :
                Params[1].v = Numeral(n) => (~httpResp.aborted /\ httpResp.code = n)
       /\ Only({Str("body")}) =>
             (~httpResp.aborted /\ httpResp.body = Params[1].v)
       /\ Only({Str("b64_body")}) =>
             \A X \in Plaintexts :
                Params[1].v = StdEncode(X) => (~httpResp.aborted /\ httpResp.body = X)
       /\ Only({Str("header")}) =>
             \A i \in 1..Len(Params) :
                LET at == Index(Params[i].v, <<":">>)
                    K == SubSeq(Params[i].v, 1, at)
                    V == SubSeq(Params[i].v, at + 2, Len(Params[i].v))
                IN  at > 0 =>
                       /\ ~httpResp.aborted
                       /\ \E name \in DOMAIN httpResp.header :
                             /\ EqualFold(name, K)
                             /\ V \in Range(httpResp.header[name])
       /\ Only({Str("delay"), Str("status"), Str("body")}) =>
             \A d \in 0..3 :
                Get(Params, Str("delay")) = Numeral(d) =>
                   /\ httpResp.aborted \/ httpResp.slept >= d
                   /\ httpResp.codeAt = -1 \/ httpResp.codeAt >= d
                   /\ httpResp.bodyAt = -1 \/ httpResp.bodyAt >= d

C9_Witness ==
    /\ phase = "engine" /\ NoPathBody
    /\ httpReq.RawQuery = Str("delay=1&status=404")
    /\ httpResp.code = 404 /\ httpResp.codeAt = 1

StatusAndBody == Str("status=500&body=err")
\* the host carries a registered token in a label before its last two
TokenLabel ==
    LET labels == Split(httpReq.Host, ".")
    IN  \E i \in 1..(Len(labels) - 2) :
           \E k \in 1..(Len(labels[i]) - GetIdLength + 1) :
              SubSeq(labels[i], k, k + GetIdLength - 1) \in Tokens

\* C10 as stated: with dynamic-response enabled, GET / with the query
\* status=500&body=err is answered with status 500 and body "err", whatever
\* the request host.
C10_DynamicOnRoot ==
    (/\ phase = "done" /\ options.DynamicResp
     /\ httpReq.Path = <<"/">> /\ httpReq.RawQuery = StatusAndBody) =>
       (~httpResp.aborted /\ httpResp.code = 500 /\ httpResp.body = Str("err"))

\* C10 as amended: the answer is status 500 with body "err" exactly when the
\* host carries a registered token in a label before its last two; for any
\* other host of two or more labels the banner is served with status 200,
\* and for a host of fewer than two labels the handler fails without an
\* answer.
C10_DynamicOnRootUnlessBanner ==
    (/\ phase = "done" /\ options.DynamicResp
     /\ httpReq.Path = <<"/">> /\ httpReq.RawQuery = StatusAndBody) =>
       IF Len(Split(httpReq.Host, ".")) < 2 THEN httpResp.aborted
       ELSE IF TokenLabel
       THEN ~httpResp.aborted /\ httpResp.code = 500 /\ httpResp.body = Str("err")
       ELSE /\ ~httpResp.aborted /\ httpResp.code = 200
            /\ httpResp.body = banner(Domains[1])

C10_Witness ==
    /\ phase = "done" /\ options.DynamicResp /\ TokenLabel
    /\ httpReq.Path = <<"/">> /\ httpReq.RawQuery = StatusAndBody
    /\ httpResp.code = 500 /\ httpResp.body = Str("err")

(***************************************************************************)
(* Claims about the branches of the default handler.                       *)
(***************************************************************************)
\* the recorder as the branches find it: the CORS headers, Server and
\* X-Interactsh-Version are set
Prepared ==
    HeaderSet(HeaderSet(HeaderSet(HeaderSet(HeaderSet(NewRecorder,
        Str("Access-Control-Allow-Origin"), <<"*">>),
        Str("Access-Control-Allow-Credentials"), Str("true")),
        Str("Access-Control-Allow-Headers"), Str("Content-Type, Authorization")),
        Str("Server"), extractServerDomain(httpReq)),
        Str("X-Interactsh-Version"), Version)
Reflected == Reverse(LastMatch)

\* the first branch, in the order of the list, whose condition holds
FirstBranch ==
    IF HasPrefixI(httpReq.Path, Str("/s/")) /\ options.HTTPDirectory THEN 1
    ELSE IF httpReq.Path = <<"/">> /\ LastMatch = <<>> THEN 2
    ELSE IF EqualFold(httpReq.Path, RobotsTxt) THEN 3
    ELSE IF HasSuffixI(httpReq.Path, Str(".json")) THEN 4
    ELSE IF HasSuffixI(httpReq.Path, Str(".xml")) THEN 5
    ELSE IF /\ options.DynamicResp
            /\ Params # <<>> \/ HasPrefixI(httpReq.Path, Str("/b64_body:")) THEN 6
    ELSE 7

\* what the client receives from branch n
BranchAnswer(n) ==
    Sent(CASE n = 1 -> staticHandler(IF options.DynamicResp /\ Params # <<>>
                                     THEN staticDynamic(Prepared, httpReq)
                                     ELSE Prepared, httpReq)
           [] n = 2 -> Write(Prepared, banner(extractServerDomain(httpReq)))
           [] n = 3 -> Write(Prepared, RobotsBody \o Reflected)
           [] n = 4 -> HeaderSet(Write(Prepared, Str("{\"data\":\"") \o Reflected
                                                 \o Str("\"}")),
                                 Str("Content-Type"), Str("application/json"))
           [] n = 5 -> HeaderSet(Write(Prepared, Str("<data>") \o Reflected
                                                 \o Str("</data>")),
                                 Str("Content-Type"), Str("application/xml"))
           [] n = 6 -> writeResponseFromDynamicRequest(Prepared, httpReq)
           [] OTHER -> Write(Prepared, Str("<html><head></head><body>") \o Reflected
                                       \o Str("</body></html>")))
FirstBranchAnswers ==
    /\ httpResp = BranchAnswer(FirstBranch)
    /\ (options.DynamicResp /\ Params # <<>> /\ FirstBranch \in {3, 4, 5}) =>
          /\ ~httpResp.aborted /\ httpResp.code = 200
          /\ httpResp.body \in {RobotsBody \o Reflected,
                                Str("{\"data\":\"") \o Reflected \o Str("\"}"),
                                Str("<data>") \o Reflected \o Str("</data>")}

\* C19: the default handler answers every request from the first branch whose
\* condition holds, in the order static file, banner, /robots.txt, .json,
\* .xml, dynamic response, HTML reflection; with dynamic-response enabled
\* and a non-empty query a request for /robots.txt, *.json or *.xml still
\* gets the reflection of its branch with status 200, not the answer of the
\* dynamic response engine.
C19_FirstBranchWins ==
    phase = "done" => FirstBranchAnswers

\* the same for the hosts of two labels and more
FirstBranchWinsOnDomains ==
    (phase = "done" /\ Len(Labels) >= 2) => FirstBranchAnswers

\* the request was answered by the dynamic response engine: applied directly,
\* or as branch 6 of the default handler
EngineAnswered ==
    \/ phase = "engine"
    \/ phase = "done" /\ Len(Labels) >= 2 /\ FirstBranch = 6
\* the status=n and every header=K:V of the query are on the response
ParametersTakeEffect ==
    /\ \A n \in 100..999 :
          Get(Params, Str("status")) = Numeral(n) =>
             (~httpResp.aborted /\ httpResp.code = n)
    /\ \A i \in 1..Len(Params) :
          LET at == Index(Params[i].v, <<":">>)
              K == SubSeq(Params[i].v, 1, at)
              V == SubSeq(Params[i].v, at + 2, Len(Params[i].v))
          IN  (Params[i].k = Str("header") /\ at > 0) =>
                 /\ ~httpResp.aborted
                 /\ \E name \in DOMAIN httpResp.header :
                       /\ EqualFold(name, K)
                       /\ V \in Range(httpResp.header[name])

\* C20: whatever the combination of parameters, a path prefix
\* /b64_body:<b64>/ included, the response of the dynamic response engine
\* carries the status=n and every header=K:V of the request: the headers are
\* set and the status is committed before the first body byte is written.
C20_HeadersStatusThenBody ==
    EngineAnswered => ParametersTakeEffect

\* the same for the requests without a body in the path
QueryParametersTakeEffect ==
    (EngineAnswered /\ NoPathBody) => ParametersTakeEffect

(***************************************************************************)
(* Claims about the content type of the reflection branches.               *)
(***************************************************************************)
ContentType(header) == HeaderGet(header, Str("Content-Type"))
\* the content type of the branch of a path ending in .json or .xml
BranchContentType ==
    IF FirstBranch = 4 THEN Str("application/json") ELSE Str("application/xml")
\* the answer as the handler committed it: rec.Result() of the recorder the
\* handler wrote to
Committed == Result(corsMiddleware(NewRecorder, httpReq))
\* the client receives the content type
ContentTypeIsSent ==
    ~httpResp.aborted /\ ContentType(httpResp.header) = BranchContentType

\* C21: the answer to a path ending in .json carries Content-Type
\* application/json and the answer to a path ending in .xml carries
\* application/xml, and the header is among the headers committed with the
\* body, for every such request.
C21_ContentTypeCommitted ==
    (phase = "done" /\ FirstBranch \in {4, 5}) =>
       /\ ContentTypeIsSent
       /\ ContentType(Committed.header) = BranchContentType

\* the client of a host of two labels and more receives the content type
ContentTypeIsSentOnDomains ==
    (phase = "done" /\ FirstBranch \in {4, 5} /\ Len(Labels) >= 2)
       => ContentTypeIsSent
\* on no host is the content type among the committed headers
ContentTypeIsNeverCommitted ==
    (phase = "done" /\ FirstBranch \in {4, 5})
       => ContentType(Committed.header) = <<>>

(***************************************************************************)
(* Claims about the root-TLD channel of the data plane.                    *)
(***************************************************************************)
\* the calls of the request that enqueue under the name of domain d
EnqueuedUnder(d) ==
    {k \in 1..Len(calls) : calls[k].op = "AddInteractionWithId" /\ calls[k].id = d}

\* C22: with root-TLD mode on a request is enqueued under the name of a
\* configured domain d, exactly once, if and only if its host is d itself;
\* a subdomain of d, or a name that only ends with the characters of d,
\* adds nothing under d; with root-TLD mode off nothing is enqueued under a
\* domain name.
C22_RootTLDOnlyForTheDomain ==
    phase = "done" =>
       \A d \in DomainSet :
          /\ Cardinality(EnqueuedUnder(d)) =
                IF RootTLD /\ EqualFold(httpReq.Host, d) THEN 1 ELSE 0
          /\ Len(channel[d]) = Cardinality(EnqueuedUnder(d))

\* what the code does: once under every configured domain that is a
\* case-insensitive suffix of the host
RootTLDForEverySuffix ==
    phase = "done" =>
       \A d \in DomainSet :
          /\ Cardinality(EnqueuedUnder(d)) =
                IF RootTLD /\ HasSuffixI(httpReq.Host, d) /\ ~httpResp.aborted
                THEN 1 ELSE 0
          /\ Len(channel[d]) = Cardinality(EnqueuedUnder(d))

(***************************************************************************)
(* Claims about the refusals of /storerequest.                             *)
(***************************************************************************)
\* C23: a /storerequest that reaches its handler and is not accepted leaves
\* the dynamic-endpoint map as it was: a method other than POST is answered
\* 405, a body that does not decode or an empty suburl 400, a request inside
\* the cool-down 429, and none of them adds, replaces or re-dates an entry.
C23_RefusalsChangeNothing ==
    [][(httpReq'.Route = "/storerequest" /\ Handled(httpReq') /\ clock' = clock) =>
         /\ httpReq'.method # "POST" => httpResp'.status = 405
         /\ (httpReq'.method = "POST" /\ (~httpReq'.decodes \/ httpReq'.suburl = ""))
               => httpResp'.status = 400
         /\ (/\ httpReq'.method = "POST" /\ httpReq'.decodes
             /\ httpReq'.suburl # "" /\ InCooldown(httpReq'.suburl, clock))
               => httpResp'.status = 429
         /\ httpResp'.status # 200 => dynamicEndpoints' = dynamicEndpoints]_vars
\* a request with another body was answered 429 half a cool-down after the
\* entry was written
C23_Witness ==
    /\ httpReq.Route = "/storerequest" /\ Handled(httpReq)
    /\ httpResp.status = 429
    /\ httpReq.suburl \in DOMAIN dynamicEndpoints
    /\ dynamicEndpoints[httpReq.suburl].Body # httpReq.payload.body
    /\ clock - dynamicEndpoints[httpReq.suburl].LastUpdated = TickHours

(***************************************************************************)
(* Claims about the run-time failures of the data plane.                   *)
(***************************************************************************)
\* C24: URLReflection and getURLIDComponent, and the default handler with
\* them, complete for every request host; for a host of fewer than two
\* labels (a single label, the empty host) the reflection is empty, as the
\* /robots.txt body shows.
C24_ReflectionNeverFails ==
    phase = "done" =>
       /\ ~httpResp.aborted
       /\ (Len(Labels) < 2 /\ httpReq.Path = RobotsTxt) => httpResp.body = RobotsBody

\* the handler fails exactly for the hosts of fewer than two labels
ReflectionFailsOffDomains ==
    phase = "done" => (httpResp.aborted <=> Len(Labels) < 2)

StatusValue == Get(Params, Str("status"))

\* C25: whatever the value of the status parameter, the dynamic response
\* engine completes and the status on the response is one the HTTP layer
\* accepts, an integer in 100..999; a value that is no integer or lies
\* outside that range does not make the handler fail.
C25_StatusIsAlwaysValid ==
    (EngineAnswered /\ StatusValue # <<>>) =>
       (~httpResp.aborted /\ httpResp.code \in 100..999)

\* without a body in the path the engine fails exactly when the status
\* value parses to a number outside 100..999 (0 when it is no number)
StatusFailsOutOfRange ==
    (EngineAnswered /\ NoPathBody) =>
       (httpResp.aborted <=>
           (StatusValue # <<>> /\ Atoi(StatusValue).n \notin 100..999))

\* the bounds of the segment the engine takes from the path
SegmentStart == Index(httpReq.Path, Str("/b64_body:")) + 10
SegmentEnd == LastIndex(httpReq.Path, <<"/">>)

\* C26: for every path that begins with /b64_body:, in any letter case, the
\* dynamic response engine completes: the bounds of the segment satisfy
\* 0 <= start <= end <= length of the path, also when no '/' follows the
\* prefix or the prefix is written in another letter case.
C26_PathSegmentInBounds ==
    (EngineAnswered /\ ~NoPathBody) =>
       /\ ~httpResp.aborted
       /\ 0 <= SegmentStart /\ SegmentStart <= SegmentEnd
       /\ SegmentEnd <= Len(httpReq.Path)

\* with a body in the path the engine fails exactly when the bounds are out
\* of order
PathSegmentFailsOutOfOrder ==
    (EngineAnswered /\ ~NoPathBody) =>
       (httpResp.aborted <=> SegmentStart > SegmentEnd)
\* a segment that is no base64 is dropped: the answer has an empty body
UndecodableSegmentIsDropped ==
    (EngineAnswered /\ httpReq.Path = Str("/b64_body:!/") /\ httpReq.RawQuery = <<>>)
       => (~httpResp.aborted /\ httpResp.code = 200 /\ httpResp.body = <<>>)

(***************************************************************************)
(* Claims about the range of the session counter.                          *)
(***************************************************************************)
\* C27: the session counter is never negative, whatever requests to
\* /register, /deregister and the other routes the server has handled.
C27_SessionsNeverNegative == Sessions >= 0

\* the counter falls only by one at a time, and only through a request to
\* /deregister or /serve/ that reaches deregisterHandler
SessionsOnlyFallByDeregistration ==
    [][Sessions' < Sessions =>
         /\ httpReq'.Route \in {"/deregister", "/serve/"}
         /\ Handled(httpReq')
         /\ Sessions' = Sessions - 1]_vars

==============================================================================
